---- MODULE Spec2Model ----
(***************************************************************************)
(* TAS (Telegram as Storage): the metadata index (db/index.js), the upload *)
(* and download pipeline (index.js: processFile, retrieveFile), the FUSE   *)
(* projection's store operations (fuse/index.js), the CLI's delete and     *)
(* resume commands (cli.js) and the Chunker (utils/chunker.js).            *)
(*                                                                         *)
(* Granularity: JavaScript runs a handler without interruption between two *)
(* awaits, so one action is the code from one await of a transport call to *)
(* the next.  A process can be killed while it waits for the transport.    *)
(***************************************************************************)
EXTENDS Integers, Sequences, FiniteSets, TLC

\* ------------------------------------------------------------------ bounds
\* Ids the files table's AUTOINCREMENT hands out.
MaxFiles == 3
\* Ids the pending_uploads ledger hands out.
MaxPending == 2
\* Payload length and chunk ceiling of the Chunker round trip.
MaxLen == 3
MaxCeiling == 2
\* Characters of a filename given to the header codec.
MaxName == 2

\* The chunk ceiling of processFile, in model bytes (the code's is 49 MiB).
TELEGRAM_CHUNK_SIZE == 2

\* The file contents pushed, written or registered: content c is stored as
\* 2c-1 bytes, so content 1 is a one-chunk file and content 2 a two-chunk file.
Contents == {1, 2}
Names == {<<"a">>, <<"a", "b">>}

Min(a, b) == IF a < b THEN a ELSE b

\* ------------------------------------------------------------- pure parts
\* hashData / hashFile: the SHA-256 digest of a content, taken collision free.
\* A digest is a string of hex digits; content 1 hashes to "a1", 2 to "b2", ...
HexDigits == <<"a", "b", "c", "d">>
Decimals == <<"1", "2", "3", "4">>
hashData(c) == <<HexDigits[c], Decimals[c]>>

Hashes == {hashData(c) : c \in Contents}

\* compress, then Encryptor.encrypt: the stored bytes of content c.
encryptedData(c) == [i \in 1..(2 * c - 1) |-> 10 * c + i]

\* decipher.final() throws when the authentication tag does not match.
AuthError == [ok |-> FALSE, data |-> 0]

\* Encryptor.decrypt, then decompress: GCM authenticates the whole byte string,
\* so only an unaltered, complete ciphertext yields the content.
decrypt(bytes) ==
    IF \E c \in Contents : encryptedData(c) = bytes
    THEN [ok |-> TRUE, data |-> CHOOSE c \in Contents : encryptedData(c) = bytes]
    ELSE AuthError

\* Variant that rounds down.
numChunksFloor(length, ceiling) == length \div ceiling

\* Math.ceil(length / ceiling)
numChunks(length, ceiling) == (length + ceiling - 1) \div ceiling

\* data.subarray(i * ceiling, Math.min(i * ceiling + ceiling, length))
subarray(data, i, ceiling) ==
    SubSeq(data, i * ceiling + 1, Min(i * ceiling + ceiling, Len(data)))

\* createHeader followed by the segment: one frame as it is sent.
Frame(index, total, payload) ==
    [magic |-> TRUE, chunkIndex |-> index, totalChunks |-> total, payload |-> payload]

\* The frame processFile writes for chunk i of content c.
chunkFile(c, i) ==
    LET data == encryptedData(c)
        n == numChunks(Len(data), TELEGRAM_CHUNK_SIZE)
    IN  Frame(i, n, subarray(data, i, TELEGRAM_CHUNK_SIZE))

\* filename LIKE '%' || n || '%'
Contains(hay, needle) ==
    \E i \in 1..(Len(hay) - Len(needle) + 1) :
        SubSeq(hay, i, i + Len(needle) - 1) = needle

\* --------------------------------------------------------------- the state
VARIABLES
    files,          \* table files: rows [id, filename, hash, chunks]
    chunks,         \* table chunks: rows [file_id, chunk_index, message_id, file_telegram_id]
    nextFileId,     \* the files table's AUTOINCREMENT counter
    transport,      \* the chat: message id -> the frame stored under it
    up,             \* processFile in flight
    result,         \* how the last operation ended
    pendingUploads, \* table pending_uploads: rows [id, filename, hash, total_chunks, uploaded_chunks]
    pendingChunks,  \* table pending_chunks: rows [upload_id, chunk_index, uploaded, message_id, file_telegram_id]
    nextPendingId,  \* the ledger's AUTOINCREMENT counter
    spill,          \* the spill files: chunk path <<upload id, chunk index>> -> frame
    rs,             \* the resume command in flight
    resumeSends,    \* history: chunk path of a live upload -> how often resume sent it
    dl,             \* retrieveFile in flight
    output,         \* what retrieveFile wrote to outputPath
    rt,             \* a round trip through one pure component (Chunker, Encryptor,
                    \* header codec, Compressor): its input, what is in between, its output
    fileCache,      \* the mount's read cache: name -> [data, timestamp]
    writeBuffers,   \* the mount's write buffers: name -> [data, modified]
    now             \* Date.now(), in units of the cache's time to live

index == <<files, chunks, nextFileId>>
chat == <<transport>>
ledger == <<pendingUploads, pendingChunks, nextPendingId, spill>>
resumeSide == <<ledger, rs, resumeSends>>
pullSide == <<dl, output>>
mountSide == <<fileCache, writeBuffers, now>>
vars == <<files, chunks, nextFileId, transport, up, result,
          pendingUploads, pendingChunks, nextPendingId, spill, rs, resumeSends,
          dl, output, rt, fileCache, writeBuffers, now>>

\* How a command ended: its outcome, the digest it was about, its progress.
\* A push also reports the filename it was given.
NoResult == [op |-> "none", outcome |-> "none", filename |-> <<>>, hash |-> <<>>,
             sent |-> 0, total |-> 0]
Result(op, outcome, hash, sent, total) ==
    [op |-> op, outcome |-> outcome, filename |-> <<>>, hash |-> hash,
     sent |-> sent, total |-> total]
PushResult(outcome, filename, hash, sent, total) ==
    [op |-> "push", outcome |-> outcome, filename |-> filename, hash |-> hash,
     sent |-> sent, total |-> total]

UpIdle == [pc |-> "idle", filename |-> <<>>, content |-> 0, fileId |-> 0, index |-> 0, total |-> 0]

RsIdle == [pc |-> "idle", queue |-> <<>>, todo |-> <<>>]
DlIdle == [pc |-> "idle", rows |-> <<>>, downloadedChunks |-> <<>>]
NoOutput == [written |-> FALSE, data |-> 0]
RtIdle == [pc |-> "idle", data |-> <<>>, ceiling |-> 1, inFlight |-> {}, arrived |-> <<>>,
           out |-> [ok |-> FALSE, data |-> <<>>]]

\* One command at a time: no operation starts while another is in flight.
Idle == up.pc = "idle" /\ rs.pc = "idle" /\ dl.pc = "idle"

\* ------------------------------------------------------------ FileIndex
\* Variant of exists that never finds the digest.
existsNever(rows, hash) == FALSE

\* SELECT 1 FROM files WHERE hash = ?
exists(rows, hash) == \E f \in rows : f.hash = hash

\* Variant of the files table without the UNIQUE constraint on hash.
hashUnconstrained(rows, hash) == TRUE

\* hash TEXT UNIQUE NOT NULL: an INSERT of a hash that is present throws.
hashUnique(rows, hash) == ~ \E f \in rows : f.hash = hash

\* INSERT INTO files ...; the row id is result.lastInsertRowid.
addFile(rows, filename, hash, nchunks) ==
    rows \cup {[id |-> nextFileId, filename |-> filename, hash |-> hash, chunks |-> nchunks]}

\* INSERT INTO chunks ..., then UPDATE chunks SET file_telegram_id.
addChunk(rows, fileId, chunkIndex, messageId, fileTelegramId) ==
    rows \cup {[file_id |-> fileId, chunk_index |-> chunkIndex,
                message_id |-> messageId, file_telegram_id |-> fileTelegramId]}

\* SELECT * FROM chunks WHERE file_id = ?
getChunks(fileId) == {ch \in chunks : ch.file_id = fileId}

\* ... ORDER BY chunk_index, as stmt.all returns the rows.
RECURSIVE orderByChunkIndex(_)
orderByChunkIndex(rows) ==
    IF rows = {} THEN <<>>
    ELSE LET first == CHOOSE ch \in rows : \A other \in rows :
                                 ch.chunk_index <= other.chunk_index
         IN  <<first>> \o orderByChunkIndex(rows \ {first})

IsPrefix(p, s) == Len(p) <= Len(s) /\ SubSeq(s, 1, Len(p)) = p

\* SELECT * FROM files WHERE hash = ? OR hash LIKE ? || '%'.  stmt.get returns
\* one of the matching rows (the query has no ORDER BY).
findByHash(rows, hash) == {f \in rows : f.hash = hash \/ IsPrefix(hash, f.hash)}

\* SELECT * FROM files WHERE filename = ? OR filename LIKE '%' || ? || '%'
findByName(rows, filename) ==
    {f \in rows : f.filename = filename \/ Contains(f.filename, filename)}

\* DELETE FROM files WHERE id = ?; its chunks go with it (ON DELETE CASCADE).
deleteFile(rows, fileId) == {f \in rows : f.id # fileId}
deleteChunks(rows, fileId) == {ch \in rows : ch.file_id # fileId}

\* -------------------------------------------------------- TelegramClient
\* sendFile: the ids of the message the transport creates.  The ids are opaque
\* and never reused; the model names a message after the row it is sent for:
\* <<"file", file id, chunk index>> or <<"pending", upload id, chunk index>>.
sendFile(for) == [messageId |-> for, fileId |-> for]

\* The chat after sendFile stored `frame`, and after deleteMessage removed `ms`.
Stored(chat0, for, frame) == [m \in DOMAIN chat0 \cup {for} |->
                                IF m = for THEN frame ELSE chat0[m]]
Removed(chat0, ms) == [m \in DOMAIN chat0 \ ms |-> chat0[m]]

\* ------------------------------------------------------------ processFile
\* Hash, duplicate check, compress, encrypt, chunk, connect, addFile.
processFileStart(filename, c) ==
    /\ UNCHANGED <<mountSide, resumeSide, pullSide, rt>>
    /\ Idle
    /\ LET hash == hashData(c)
           n == numChunks(Len(encryptedData(c)), TELEGRAM_CHUNK_SIZE)
       IN  IF exists(files, hash)
           THEN /\ result' = PushResult("duplicate", filename, hash, 0, n)
                /\ UNCHANGED <<index, chat, up>>
           ELSE IF ~ hashUnique(files, hash)
           \* addFile throws (UNIQUE)
           THEN /\ result' = PushResult("failed", filename, hash, 0, n)
                /\ UNCHANGED <<index, chat, up>>
           ELSE /\ nextFileId <= MaxFiles
                /\ files' = addFile(files, filename, hash, n)
                /\ nextFileId' = nextFileId + 1
                /\ up' = [pc |-> "sending", filename |-> filename, content |-> c,
                          fileId |-> nextFileId, index |-> 0, total |-> n]
                /\ result' = PushResult("running", filename, hash, 0, n)
                /\ UNCHANGED <<chunks, chat>>

\* One turn of the upload loop: sendFile succeeded, addChunk.
processFileSend ==
    /\ UNCHANGED <<mountSide, resumeSide, pullSide, rt>>
    /\ up.pc = "sending"
    /\ LET sent == sendFile(<<"file", up.fileId, up.index>>)
       IN  /\ transport' = Stored(transport, sent.messageId, chunkFile(up.content, up.index))
           /\ chunks' = addChunk(chunks, up.fileId, up.index, sent.messageId, sent.fileId)
    /\ IF up.index + 1 = up.total
       THEN /\ up' = UpIdle
            /\ result' = PushResult("uploaded", up.filename, hashData(up.content), up.total, up.total)
       ELSE /\ up' = [up EXCEPT !.index = up.index + 1]
            /\ result' = PushResult("running", up.filename, hashData(up.content), up.index + 1, up.total)
    /\ UNCHANGED <<files, nextFileId>>

\* One turn of the upload loop: sendFile threw, and processFile throws.
processFileSendFails ==
    /\ UNCHANGED <<mountSide, resumeSide, pullSide, rt>>
    /\ up.pc = "sending"
    /\ up' = UpIdle
    /\ result' = PushResult("send_failed", up.filename, hashData(up.content), up.index, up.total)
    /\ UNCHANGED <<index, chat>>

\* The process is killed while processFile waits for the transport.
processFileKilled ==
    /\ UNCHANGED <<mountSide, resumeSide, pullSide, rt>>
    /\ up.pc = "sending"
    /\ up' = UpIdle
    /\ result' = PushResult("killed", up.filename, hashData(up.content), up.index, up.total)
    /\ UNCHANGED <<index, chat>>

\* ------------------------------------------------- TelegramFS (the mount)
\* The messages of a file's chunks.
messagesOf(fileId) == {ch.message_id : ch \in getChunks(fileId)}

\* Variant of the handlers without their try/catch: what is thrown escapes.
rethrown(err) == "uncaught"

\* catch (err) { ...; return cb(Fuse.EIO) } in read, release and unlink: whatever
\* was thrown, the callback gets the I/O error code.
caught(err) == "EIO"

\* uploadFile, as release runs it on a modified write buffer holding content c:
\* what it does to the index and the chat.
\* deleteMessage returns false instead of throwing: the messages of `failing`
\* survive.  sendFile may throw, and release's catch block reports it.
uploadFile(filename, c, failing) ==
    /\ UNCHANGED <<resumeSide, pullSide, rt>>
    /\ Idle
    /\ LET hash == hashData(c)
           existingByName == findByName(files, filename)
       IN  \E old \in (IF existingByName = {} THEN {0} ELSE {f.id : f \in existingByName}) :
           LET files1 == deleteFile(files, old)
               chunks1 == deleteChunks(chunks, old)
               chat1 == Removed(transport, messagesOf(old) \ failing)
           IN  IF findByHash(files1, hash) # {}
               THEN /\ files' = files1
                    /\ chunks' = chunks1
                    /\ transport' = chat1
                    /\ result' = Result("release", "skipped", <<>>, 0, 0)
                    /\ UNCHANGED <<nextFileId, up>>
               ELSE \E sendOk \in BOOLEAN :
                    IF sendOk
                    THEN /\ nextFileId <= MaxFiles
                         /\ hashUnique(files1, hash)
                         /\ files' = addFile(files1, filename, hash, 1)
                         /\ LET sent == sendFile(<<"file", nextFileId, 0>>)
                            IN  /\ chunks' = addChunk(chunks1, nextFileId, 0,
                                                      sent.messageId, sent.fileId)
                                /\ transport' = Stored(chat1, sent.messageId,
                                                       Frame(0, 1, encryptedData(c)))
                         /\ nextFileId' = nextFileId + 1
                         /\ result' = Result("release", "ok", <<>>, 0, 0)
                         /\ UNCHANGED up
                    ELSE /\ files' = files1
                         /\ chunks' = chunks1
                         /\ transport' = chat1
                         /\ result' = Result("release", caught("send"), <<>>, 0, 0)
                         /\ UNCHANGED <<nextFileId, up>>

\* The read cache is a Map from name to [data, timestamp].
CACHE_TTL == 1

\* fileCache.delete(filename)
invalidateCache(cache, filename) == [n \in DOMAIN cache \ {filename} |-> cache[n]]

\* fileCache.set(filename, {data, timestamp: Date.now()})
setCache(cache, filename, data) ==
    [n \in DOMAIN cache \cup {filename} |->
        IF n = filename THEN [data |-> data, timestamp |-> now] ELSE cache[n]]

\* getCached finds an entry that is no older than CACHE_TTL; an older one it
\* deletes.
Fresh(filename) ==
    /\ filename \in DOMAIN fileCache
    /\ now - fileCache[filename].timestamp <= CACHE_TTL

\* unlink: ENOENT for an unknown name, else delete the messages (those of
\* `failing` survive, deleteMessage returning false), the index row and the
\* cache entry.
unlink(filename, failing) ==
    /\ UNCHANGED <<resumeSide, pullSide, rt, writeBuffers, now>>
    /\ Idle
    /\ IF findByName(files, filename) = {}
       THEN /\ result' = Result("unlink", "ENOENT", <<>>, 0, 0)
            /\ UNCHANGED <<index, chat, up, fileCache>>
       ELSE \E file \in findByName(files, filename) :
                /\ files' = deleteFile(files, file.id)
                /\ chunks' = deleteChunks(chunks, file.id)
                /\ transport' = Removed(transport, messagesOf(file.id) \ failing)
                /\ fileCache' = invalidateCache(fileCache, filename)
                /\ result' = Result("unlink", "ok", <<>>, 0, 0)
                /\ UNCHANGED <<nextFileId, up>>

\* rename: UPDATE files SET filename = ? WHERE id = ?, then the cache entry of
\* the old name, if there is one, moves to the new name.
rename(oldName, newName) ==
    /\ UNCHANGED <<resumeSide, pullSide, rt, writeBuffers, now>>
    /\ Idle
    /\ IF findByName(files, oldName) = {}
       THEN /\ result' = Result("rename", "ENOENT", <<>>, 0, 0)
            /\ UNCHANGED <<index, chat, up, fileCache>>
       ELSE \E file \in findByName(files, oldName) :
                /\ files' = {IF f.id = file.id THEN [f EXCEPT !.filename = newName] ELSE f :
                               f \in files}
                /\ fileCache' =
                       IF oldName \in DOMAIN fileCache
                       THEN LET cached == fileCache[oldName]
                                moved == invalidateCache(fileCache, oldName)
                            IN  [n \in DOMAIN moved \cup {newName} |->
                                    IF n = newName THEN cached ELSE moved[n]]
                       ELSE fileCache
                /\ result' = Result("rename", "ok", <<>>, 0, 0)
                /\ UNCHANGED <<chunks, nextFileId, chat, up>>

\* ------------------------------------------------------ cli.js: delete
\* findByHash(identifier) || findByName(identifier), then db.delete; with --hard
\* the chunk messages are deleted first (those of `failing` survive).
cliDelete(identifier, hard, failing) ==
    /\ UNCHANGED <<mountSide, resumeSide, pullSide, rt>>
    /\ Idle
    /\ LET found == IF findByHash(files, identifier) # {}
                    THEN findByHash(files, identifier)
                    ELSE findByName(files, identifier)
       IN  IF found = {}
           THEN /\ result' = Result("delete", "not_found", <<>>, 0, 0)
                /\ UNCHANGED <<index, chat, up>>
           ELSE \E fileRecord \in found :
                    /\ files' = deleteFile(files, fileRecord.id)
                    /\ chunks' = deleteChunks(chunks, fileRecord.id)
                    /\ transport' = Removed(transport,
                            IF hard THEN messagesOf(fileRecord.id) \ failing ELSE {})
                    /\ result' = Result("delete", "ok", <<>>, 0, 0)
                    /\ UNCHANGED <<nextFileId, up>>

\* -------------------------------------------- the pending-upload ledger
\* The ledger's methods (getPendingUploads, getPendingChunks, markChunkUploaded,
\* deletePendingUpload) and the writer of its rows are called by cli.js and are
\* not part of db/index.js as given: they follow the data model's description.
RECURSIVE Ascending(_)
Ascending(S) ==
    IF S = {} THEN <<>>
    ELSE LET m == CHOOSE x \in S : \A y \in S : x <= y
         IN  <<m>> \o Ascending(S \ {m})

\* getPendingUploads: the ids of the ledger's rows, oldest first.
getPendingUploads == Ascending({u.id : u \in pendingUploads})

pendingUpload(id) == CHOOSE u \in pendingUploads : u.id = id

\* getPendingChunks: the Pending Chunk rows of one upload.
getPendingChunks(rows, uploadId) == {ch \in rows : ch.upload_id = uploadId}

\* markChunkUploaded: the flag and the transport ids of one Pending Chunk ...
markChunkUploaded(rows, uploadId, chunkIndex, messageId, fileId) ==
    {IF ch.upload_id = uploadId /\ ch.chunk_index = chunkIndex
     THEN [ch EXCEPT !.uploaded = TRUE, !.message_id = messageId,
                     !.file_telegram_id = fileId]
     ELSE ch : ch \in rows}

\* ... and the upload's uploaded-chunk count.
countUploaded(rows, uploadId) ==
    {IF u.id = uploadId THEN [u EXCEPT !.uploaded_chunks = @ + 1] ELSE u : u \in rows}

\* deletePendingUpload: the ledger row and its Pending Chunk rows.
deletePendingUpload(rows, uploadId) == {u \in rows : u.id # uploadId}
deletePendingChunks(rows, uploadId) == {ch \in rows : ch.upload_id # uploadId}

\* An upload of content c is registered as in flight: one ledger row, one
\* Pending Chunk row and one spill file per chunk, none uploaded yet.
createPendingUpload(filename, c) ==
    /\ Idle
    /\ nextPendingId <= MaxPending
    /\ ~ exists(files, hashData(c))
    /\ LET n == numChunks(Len(encryptedData(c)), TELEGRAM_CHUNK_SIZE)
           paths == {<<nextPendingId, i>> : i \in 0..(n - 1)}
       IN  /\ pendingUploads' = pendingUploads \cup
                  {[id |-> nextPendingId, filename |-> filename, hash |-> hashData(c),
                    total_chunks |-> n, uploaded_chunks |-> 0]}
           /\ pendingChunks' = pendingChunks \cup
                  {[upload_id |-> nextPendingId, chunk_index |-> i, uploaded |-> FALSE,
                    message_id |-> <<>>, file_telegram_id |-> <<>>] : i \in 0..(n - 1)}
           /\ spill' = [q \in DOMAIN spill \cup paths |->
                          IF q \in paths THEN chunkFile(c, q[2]) ELSE spill[q]]
           /\ resumeSends' = [q \in DOMAIN resumeSends \cup paths |->
                                IF q \in paths THEN 0 ELSE resumeSends[q]]
    /\ nextPendingId' = nextPendingId + 1
    /\ result' = Result("ledger", "pending", <<>>, 0, 0)
    /\ UNCHANGED <<mountSide, index, chat, up, rs, pullSide, rt>>

\* A spill file disappears from the temp directory.
spillFileLost(path) ==
    /\ path \in DOMAIN spill
    /\ spill' = [q \in DOMAIN spill \ {path} |-> spill[q]]
    /\ UNCHANGED <<mountSide, index, chat, up, result, pendingUploads, pendingChunks, nextPendingId,
                   rs, resumeSends, pullSide, rt>>

\* ------------------------------------------------------ cli.js: resume
\* chunks.filter(c => !c.uploaded), in chunk order.
pendingChunksOf(rows, uploadId) ==
    Ascending({ch.chunk_index : ch \in {x \in getPendingChunks(rows, uploadId) : ~ x.uploaded}})

\* The loop over `pending` reaches the uploads of `queue`: the next upload's
\* chunks are read, or the command ends.
resumeLoop(queue) ==
    IF queue = <<>> THEN RsIdle
    ELSE [pc |-> "running", queue |-> queue,
          todo |-> pendingChunksOf(pendingChunks, Head(queue))]

\* Variant of the completion test: allChunks.some(c => c.uploaded)
someUploaded(allChunks) == \E ch \in allChunks : ch.uploaded

\* allChunks.every(c => c.uploaded)
everyUploaded(allChunks) == \A ch \in allChunks : ch.uploaded

\* The command up to its first transport call: list, prompt, clear or connect.
resumeStart(action) ==
    /\ Idle
    /\ UNCHANGED <<mountSide, index, chat, up, nextPendingId, pullSide, rt>>
    /\ IF pendingUploads = {}
       THEN /\ result' = Result("resume", "none", <<>>, 0, 0)
            /\ UNCHANGED <<pendingUploads, pendingChunks, spill, rs, resumeSends>>
       ELSE CASE action = "cancel" ->
                 /\ result' = Result("resume", "cancelled", <<>>, 0, 0)
                 /\ UNCHANGED <<pendingUploads, pendingChunks, spill, rs, resumeSends>>
              [] action = "clear" ->
                 LET ids == {u.id : u \in pendingUploads}
                 IN  /\ spill' = [q \in {x \in DOMAIN spill : x[1] \notin ids} |-> spill[q]]
                     /\ pendingUploads' = {}
                     /\ pendingChunks' = {ch \in pendingChunks : ch.upload_id \notin ids}
                     /\ resumeSends' = [q \in {x \in DOMAIN resumeSends : x[1] \notin ids}
                                           |-> resumeSends[q]]
                     /\ result' = Result("resume", "cleared", <<>>, 0, 0)
                     /\ UNCHANGED rs
              [] action = "resume" ->
                 /\ rs' = resumeLoop(getPendingUploads)
                 /\ result' = Result("resume", "running", <<>>, 0, 0)
                 /\ UNCHANGED <<pendingUploads, pendingChunks, spill, resumeSends>>

\* Variant of the missing-spill-file branch that gives the command up.
resumeChunkMissingAborts ==
    /\ rs.pc = "running" /\ rs.todo # <<>>
    /\ <<Head(rs.queue), Head(rs.todo)>> \notin DOMAIN spill
    /\ rs' = RsIdle
    /\ result' = Result("resume", "failed", <<>>, 0, 0)
    /\ UNCHANGED <<mountSide, index, chat, up, ledger, resumeSends, pullSide, rt>>

\* A chunk whose spill file is missing: log, continue with the next chunk.
resumeChunkMissing ==
    /\ rs.pc = "running" /\ rs.todo # <<>>
    /\ <<Head(rs.queue), Head(rs.todo)>> \notin DOMAIN spill
    /\ rs' = [rs EXCEPT !.todo = Tail(@)]
    /\ result' = Result("resume", "running", <<>>, 0, 0)
    /\ UNCHANGED <<mountSide, index, chat, up, ledger, resumeSends, pullSide, rt>>

\* A chunk whose spill file exists: sendFile, markChunkUploaded, unlink.
resumeChunkSend ==
    /\ rs.pc = "running" /\ rs.todo # <<>>
    /\ LET path == <<Head(rs.queue), Head(rs.todo)>>
           sent == sendFile(<<"pending", path[1], path[2]>>)
       IN  /\ path \in DOMAIN spill
           /\ transport' = Stored(transport, sent.messageId, spill[path])
           /\ pendingChunks' = markChunkUploaded(pendingChunks, path[1], path[2],
                                                 sent.messageId, sent.fileId)
           /\ pendingUploads' = countUploaded(pendingUploads, path[1])
           /\ spill' = [q \in DOMAIN spill \ {path} |-> spill[q]]
           /\ resumeSends' = [resumeSends EXCEPT ![path] = @ + 1]
    /\ rs' = [rs EXCEPT !.todo = Tail(@)]
    /\ result' = Result("resume", "running", <<>>, 0, 0)
    /\ UNCHANGED <<mountSide, index, up, nextPendingId, pullSide, rt>>

\* sendFile threw: the command prints "Resume failed" and exits.
resumeChunkSendFails ==
    /\ rs.pc = "running" /\ rs.todo # <<>>
    /\ <<Head(rs.queue), Head(rs.todo)>> \in DOMAIN spill
    /\ rs' = RsIdle
    /\ result' = Result("resume", "failed", <<>>, 0, 0)
    /\ UNCHANGED <<mountSide, index, chat, up, ledger, resumeSends, pullSide, rt>>

\* After an upload's chunk loop: promote it when every chunk is uploaded
\* (addFile, addChunk per chunk, deletePendingUpload), then go on.
resumeFinalize ==
    /\ rs.pc = "running" /\ rs.todo = <<>>
    /\ LET upload == pendingUpload(Head(rs.queue))
           allChunks == getPendingChunks(pendingChunks, upload.id)
       IN  IF everyUploaded(allChunks)
           THEN IF hashUnique(files, upload.hash)
                THEN /\ nextFileId <= MaxFiles
                     /\ files' = addFile(files, upload.filename, upload.hash,
                                         upload.total_chunks)
                     /\ chunks' = chunks \cup
                            {[file_id |-> nextFileId, chunk_index |-> ch.chunk_index,
                              message_id |-> ch.message_id,
                              file_telegram_id |-> ch.file_telegram_id] : ch \in allChunks}
                     /\ nextFileId' = nextFileId + 1
                     /\ pendingUploads' = deletePendingUpload(pendingUploads, upload.id)
                     /\ pendingChunks' = deletePendingChunks(pendingChunks, upload.id)
                     /\ resumeSends' = [q \in {x \in DOMAIN resumeSends : x[1] # upload.id}
                                           |-> resumeSends[q]]
                     /\ rs' = resumeLoop(Tail(rs.queue))
                     /\ result' = Result("resume",
                                         IF Tail(rs.queue) = <<>> THEN "resumed" ELSE "running",
                                         <<>>, 0, 0)
                \* addFile throws (UNIQUE): "Resume failed"
                ELSE /\ rs' = RsIdle
                     /\ result' = Result("resume", "failed", <<>>, 0, 0)
                     /\ UNCHANGED <<index, pendingUploads, pendingChunks, resumeSends>>
           ELSE /\ rs' = resumeLoop(Tail(rs.queue))
                /\ result' = Result("resume",
                                    IF Tail(rs.queue) = <<>> THEN "resumed" ELSE "running",
                                    <<>>, 0, 0)
                /\ UNCHANGED <<index, pendingUploads, pendingChunks, resumeSends>>
    /\ UNCHANGED <<mountSide, chat, up, nextPendingId, spill, pullSide, rt>>

\* The process is killed while resume waits for the transport.
resumeKilled ==
    /\ rs.pc = "running"
    /\ rs' = RsIdle
    /\ result' = Result("resume", "killed", <<>>, 0, 0)
    /\ UNCHANGED <<mountSide, index, chat, up, ledger, resumeSends, pullSide, rt>>

\* ----------------------------------------------------------- retrieveFile
\* Variant of reassembly that keeps the arrival order.
unsorted(list) == list

\* Array.prototype.sort((a, b) => a.index - b.index): ascending and stable.
RECURSIVE sort(_)
sort(list) ==
    IF list = <<>> THEN <<>>
    ELSE LET sorted == sort(SubSeq(list, 1, Len(list) - 1))
             x == list[Len(list)]
             k == Cardinality({j \in 1..Len(sorted) : sorted[j].index <= x.index})
         IN  SubSeq(sorted, 1, k) \o <<x>> \o SubSeq(sorted, k + 1, Len(sorted))

\* Buffer.concat(list.map(c => c.data))
RECURSIVE concat(_)
concat(list) ==
    IF list = <<>> THEN <<>> ELSE Head(list).data \o concat(Tail(list))

\* What client.downloadFile can return for a stored blob: the blob, or the blob
\* with its header's chunk index, its magic bytes or its payload altered.
Damaged(payload) == [i \in 1..Len(payload) |-> IF i = 1 THEN 0 ELSE payload[i]]
Fetched(blob) ==
    {blob, [blob EXCEPT !.magic = FALSE], [blob EXCEPT !.payload = Damaged(blob.payload)]}
    \cup {[blob EXCEPT !.chunkIndex = i] : i \in 0..(blob.totalChunks - 1)}

\* The chunk record retrieveFile pushes for a fetched blob (parseHeader, subarray).
downloaded(data) == [index |-> data.chunkIndex, total |-> data.totalChunks, data |-> data.payload]

\* cli.js pull: findByHash(identifier) || findByName(identifier), then
\* retrieveFile up to its first downloadFile.
retrieveStart(identifier) ==
    /\ UNCHANGED <<mountSide, index, chat, up, resumeSide, output, rt>>
    /\ Idle
    /\ LET found == IF findByHash(files, identifier) # {}
                    THEN findByHash(files, identifier)
                    ELSE findByName(files, identifier)
       IN  IF found = {}
           THEN /\ result' = Result("pull", "not_found", <<>>, 0, 0)
                /\ UNCHANGED dl
           ELSE \E fileRecord \in found :
                LET rows == orderByChunkIndex(getChunks(fileRecord.id))
                IN  IF Len(rows) = 0
                    THEN /\ result' = Result("pull", "failed", fileRecord.hash, 0, 0)
                         /\ UNCHANGED dl
                    ELSE /\ dl' = [pc |-> "fetching", rows |-> rows, downloadedChunks |-> <<>>]
                         /\ result' = Result("pull", "running", fileRecord.hash, 0, Len(rows))

\* One turn of the download loop; after the last one: sort, concat, decrypt,
\* decompress, writeFileSync.
retrieveFetch ==
    /\ UNCHANGED <<mountSide, index, chat, up, resumeSide, rt>>
    /\ dl.pc = "fetching"
    /\ LET chunk == dl.rows[Len(dl.downloadedChunks) + 1]
       IN  /\ chunk.file_telegram_id \in DOMAIN transport
           /\ \E data \in Fetched(transport[chunk.file_telegram_id]) :
              LET list == Append(dl.downloadedChunks, downloaded(data))
                  originalData == decrypt(concat(sort(list)))
              IN  IF ~data.magic
                  THEN /\ dl' = DlIdle
                       /\ result' = [result EXCEPT !.outcome = "failed"]
                       /\ UNCHANGED output
                  ELSE IF Len(list) < Len(dl.rows)
                  THEN /\ dl' = [dl EXCEPT !.downloadedChunks = list]
                       /\ result' = [result EXCEPT !.sent = Len(list)]
                       /\ UNCHANGED output
                  ELSE IF ~originalData.ok
                  THEN /\ dl' = DlIdle
                       /\ result' = [result EXCEPT !.outcome = "failed"]
                       /\ UNCHANGED output
                  ELSE /\ dl' = DlIdle
                       /\ result' = [result EXCEPT !.outcome = "downloaded", !.sent = Len(list)]
                       /\ output' = [written |-> TRUE, data |-> originalData.data]

\* Variant of the failing fetch that leaves what it has fetched so far at
\* outputPath.
retrieveFetchFailsPartially ==
    /\ UNCHANGED <<mountSide, index, chat, up, resumeSide, rt>>
    /\ dl.pc = "fetching"
    /\ dl' = DlIdle
    /\ result' = [result EXCEPT !.outcome = "failed"]
    /\ output' = [written |-> TRUE, data |-> 0]

\* client.downloadFile throws (network error, message gone).
retrieveFetchFails ==
    /\ UNCHANGED <<mountSide, index, chat, up, resumeSide, output, rt>>
    /\ dl.pc = "fetching"
    /\ dl' = DlIdle
    /\ result' = [result EXCEPT !.outcome = "failed"]

\* ---------------------------------------------------------------- Chunker
\* Chunker.chunk with MAX_CHUNK_SIZE = ceiling: [{index, total, data}].
chunk(data, ceiling) ==
    IF Len(data) <= ceiling
    THEN <<[index |-> 0, total |-> 1, data |-> data]>>
    ELSE LET n == numChunks(Len(data), ceiling)
         IN  [k \in 1..n |-> [index |-> k - 1, total |-> n,
                              data |-> subarray(data, k - 1, ceiling)]]

\* Chunker.reassemble: sort by index, compare the count with chunks[0].total
\* (throws "Missing chunks" when it differs), concatenate.
reassemble(list) ==
    LET sorted == sort(list)
    IN  IF Len(sorted) # sorted[1].total
        THEN [ok |-> FALSE, data |-> <<>>]
        ELSE [ok |-> TRUE, data |-> concat(sorted)]

\* The payload is split; its segments travel independently.
chunkerChunk ==
    /\ rt.pc = "ready"
    /\ LET list == chunk(rt.data, rt.ceiling)
       IN  rt' = [rt EXCEPT !.pc = "arriving", !.inFlight = {list[k] : k \in 1..Len(list)}]
    /\ UNCHANGED <<mountSide, index, chat, up, result, resumeSide, pullSide>>

\* One segment arrives, in any order.
chunkArrives ==
    /\ rt.pc = "arriving"
    /\ \E segment \in rt.inFlight :
           rt' = [rt EXCEPT !.inFlight = @ \ {segment}, !.arrived = Append(@, segment)]
    /\ UNCHANGED <<mountSide, index, chat, up, result, resumeSide, pullSide>>

\* Every segment has arrived: reassemble.
chunkerReassemble ==
    /\ rt.pc = "arriving" /\ rt.inFlight = {}
    /\ rt' = [rt EXCEPT !.pc = "done", !.out = reassemble(rt.arrived)]
    /\ UNCHANGED <<mountSide, index, chat, up, result, resumeSide, pullSide>>

\* ------------------------------------- TelegramFS: read, write, release
MaxClock == 2

\* downloadFile: every chunk of the file fetched (client.downloadFile throws
\* when the network fails or the message is gone), parseHeader, sort, concat,
\* decrypt, decompress.  It throws for a file without chunks.
downloadFile(file, fetchOk) ==
    LET rows == orderByChunkIndex(getChunks(file.id))
    IN  IF \/ Len(rows) = 0
           \/ ~fetchOk
           \/ \E i \in 1..Len(rows) : rows[i].file_telegram_id \notin DOMAIN transport
        THEN AuthError
        ELSE LET downloadedChunks ==
                     [i \in 1..Len(rows) |-> downloaded(transport[rows[i].file_telegram_id])]
             IN  decrypt(concat(sort(downloadedChunks)))

\* read: the cached bytes if getCached finds them, else downloadFile and
\* setCache; whatever is thrown is caught and reported as EIO.  The result
\* names the bytes copied to the caller by their digest.
read(filename, fetchOk) ==
    /\ UNCHANGED <<index, chat, up, resumeSide, pullSide, rt, writeBuffers, now>>
    /\ Idle
    /\ IF Fresh(filename)
       THEN /\ result' = Result("read", "ok", hashData(fileCache[filename].data), 0, 0)
            /\ UNCHANGED fileCache
       ELSE LET expired == invalidateCache(fileCache, filename)
            IN  IF findByName(files, filename) = {}
                THEN /\ result' = Result("read", caught("not found"), <<>>, 0, 0)
                     /\ fileCache' = expired
                ELSE \E file \in findByName(files, filename) :
                     LET data == downloadFile(file, fetchOk)
                     IN  IF data.ok
                         THEN /\ fileCache' = setCache(expired, filename, data.data)
                              /\ result' = Result("read", "ok", hashData(data.data), 0, 0)
                         ELSE /\ fileCache' = expired
                              /\ result' = Result("read", caught("download"), <<>>, 0, 0)

\* write: the incoming bytes are copied into the name's write buffer, which is
\* created if there is none; c is the content the buffer holds afterwards.
write(filename, c) ==
    /\ UNCHANGED <<index, chat, up, resumeSide, pullSide, rt, fileCache, now>>
    /\ Idle
    /\ writeBuffers' = [n \in DOMAIN writeBuffers \cup {filename} |->
                          IF n = filename THEN [data |-> c, modified |-> TRUE]
                          ELSE writeBuffers[n]]
    /\ result' = Result("write", "ok", <<>>, 0, 0)

\* release: nothing to do without a modified write buffer; else uploadFile,
\* and when it returns the buffer is dropped and the cache entry invalidated.
\* When uploadFile throws, release reports EIO and keeps both.
release(filename, failing) ==
    /\ UNCHANGED now
    /\ IF filename \notin DOMAIN writeBuffers \/ ~writeBuffers[filename].modified
       THEN /\ Idle
            /\ result' = Result("release", "ok", <<>>, 0, 0)
            /\ UNCHANGED <<index, chat, up, resumeSide, pullSide, rt, fileCache, writeBuffers>>
       ELSE /\ uploadFile(filename, writeBuffers[filename].data, failing)
            /\ IF result'.outcome \notin {"ok", "skipped"}
               THEN UNCHANGED <<fileCache, writeBuffers>>
               ELSE /\ writeBuffers' = [n \in DOMAIN writeBuffers \ {filename} |->
                                          writeBuffers[n]]
                    /\ fileCache' = invalidateCache(fileCache, filename)

\* The length in bytes of content c (data.length, original_size).
sizeOfContent(c) == c

\* getattr of a name: the sizes it may report.  A write buffer answers with its
\* length; else the File that findByName returns with its original_size; no
\* size (ENOENT) when there is neither.
getattr(filename) ==
    IF filename \in DOMAIN writeBuffers
    THEN {sizeOfContent(writeBuffers[filename].data)}
    ELSE {sizeOfContent(c) : c \in {d \in Contents :
                                     \E f \in findByName(files, filename) : f.hash = hashData(d)}}

\* Time passes.
tick ==
    /\ UNCHANGED <<index, chat, up, result, resumeSide, pullSide, rt, fileCache, writeBuffers>>
    /\ now < MaxClock
    /\ now' = now + 1

Init ==
    /\ files = {}
    /\ chunks = {}
    /\ nextFileId = 1
    /\ transport = <<>>
    /\ up = UpIdle
    /\ result = NoResult
    /\ pendingUploads = {}
    /\ pendingChunks = {}
    /\ nextPendingId = 1
    /\ spill = <<>>
    /\ rs = RsIdle
    /\ resumeSends = <<>>
    /\ dl = DlIdle
    /\ output = NoOutput
    /\ rt = RtIdle
    /\ fileCache = <<>>
    /\ writeBuffers = <<>>
    /\ now = 0

\* The upload pipeline (index.js).
NextPush ==
    \/ \E filename \in Names, c \in Contents : processFileStart(filename, c)
    \/ processFileSend
    \/ processFileSendFails
    \/ processFileKilled

\* The pull command (cli.js, index.js).
NextPull ==
    \/ \E identifier \in Names \cup Hashes : retrieveStart(identifier)
    \/ retrieveFetch
    \/ retrieveFetchFails

\* The mount's store operations (fuse/index.js) and the CLI's delete --hard,
\* every deleteMessage succeeding.
NextMount ==
    \/ \E filename \in Names, c \in Contents :
           uploadFile(filename, c, {}) /\ UNCHANGED mountSide
    \/ \E filename \in Names : unlink(filename, {})
    \/ \E oldName \in Names, newName \in Names : rename(oldName, newName)
    \/ \E identifier \in Names \cup Hashes : cliDelete(identifier, TRUE, {})

\* The resume command.
NextCommand ==
    \/ \E action \in {"resume", "clear", "cancel"} : resumeStart(action)
    \/ resumeChunkSend
    \/ resumeChunkSendFails
    \/ resumeFinalize
    \/ resumeKilled

\* Every writer of the index: the pipeline, the mount, the CLI's delete, and
\* the resume command promoting one registered upload at a time, its spill
\* files in place and its sends succeeding.
Next ==
    \/ NextPush
    \/ NextMount
    \/ resumeStart("resume")
    \/ resumeChunkSend
    \/ resumeFinalize
    \/ /\ pendingUploads = {}
       /\ \E filename \in Names, c \in Contents : createPendingUpload(filename, c)

Spec == Init /\ [][Next]_vars

\* The ledger and the resume command alone, spill files getting lost.
NextResume ==
    \/ NextCommand
    \/ \E filename \in Names, c \in Contents : createPendingUpload(filename, c)
    \/ \E path \in DOMAIN spill : spillFileLost(path)
    \/ resumeChunkMissing

SpecResume == Init /\ [][NextResume]_vars

\* The upload pipeline and the pull command alone, blobs damaged in transit.
NextPipeline == NextPush \/ NextPull

SpecPipeline == Init /\ [][NextPipeline]_vars

\* The mount alone, within the cache's time to live: its read cache and its
\* write buffers, a fetch or a send failing, deleteMessage returning false for
\* every message or for none.
NextFs ==
    \/ \E filename \in Names, fetchOk \in BOOLEAN : read(filename, fetchOk)
    \/ \E filename \in Names, c \in Contents : write(filename, c)
    \/ \E filename \in Names, failing \in {{}, DOMAIN transport} : release(filename, failing)
    \/ \E filename \in Names, failing \in {{}, DOMAIN transport} : unlink(filename, failing)
    \/ \E oldName \in Names, newName \in Names : rename(oldName, newName)

SpecMount == Init /\ [][NextFs]_vars

\* The mount with its clock running, so that cache entries expire.
NextFsClock == NextFs \/ tick

SpecMountClock == Init /\ [][NextFsClock]_vars

\* The Chunker alone: every payload of up to MaxLen bytes over Bytes, every
\* ceiling up to MaxCeiling.
Bytes == {0, 1}
Payloads == UNION {[1..n -> Bytes] : n \in 0..MaxLen}

InitChunker ==
    /\ files = {} /\ chunks = {} /\ nextFileId = 1 /\ transport = <<>>
    /\ up = UpIdle /\ result = NoResult
    /\ pendingUploads = {} /\ pendingChunks = {} /\ nextPendingId = 1 /\ spill = <<>>
    /\ rs = RsIdle /\ resumeSends = <<>>
    /\ dl = DlIdle /\ output = NoOutput
    /\ fileCache = <<>> /\ writeBuffers = <<>> /\ now = 0
    /\ \E data \in Payloads, ceiling \in 1..MaxCeiling :
           rt = [RtIdle EXCEPT !.pc = "ready", !.data = data, !.ceiling = ceiling]

NextChunker == chunkerChunk \/ chunkArrives \/ chunkerReassemble

SpecChunker == InitChunker /\ [][NextChunker]_vars

\* -------------------------------------------------------------- Encryptor
\* Lengths in model bytes (the code's are 32, 12 and 16).
SALT_LENGTH == 1
IV_LENGTH == 1
TAG_LENGTH == 1

Passwords == {1, 2}

\* A byte string read as a number, and an injective pairing of two numbers.
RECURSIVE Num(_)
Num(bytes) ==
    IF bytes = <<>> THEN 1 ELSE 2 * Num(SubSeq(bytes, 1, Len(bytes) - 1)) + bytes[Len(bytes)]
Pair(a, b) == ((a + b) * (a + b + 1)) \div 2 + b

\* buffer.subarray(start, end): negative offsets count from the end, offsets
\* are clamped to the buffer, an empty range yields an empty buffer.
Clamp(offset, length) ==
    IF offset < 0 THEN (IF length + offset < 0 THEN 0 ELSE length + offset)
    ELSE Min(offset, length)
Slice(buffer, start, end) ==
    SubSeq(buffer, Clamp(start, Len(buffer)) + 1, Clamp(end, Len(buffer)))

\* deriveKey: PBKDF2 of password and salt, taken collision free.
deriveKey(password, salt) == Pair(password, Num(salt))

\* AES-GCM's counter mode: byte i is combined with a key stream byte that
\* depends on key, iv and position.
keyStream(key, iv, i) == (key + Num(iv) + i) % 2
cipherUpdate(data, key, iv) ==
    [i \in 1..Len(data) |-> (data[i] + keyStream(key, iv, i)) % 2]

\* Variant of decipher.update that returns the ciphertext as it is.
decipherNothing(ciphertext, key, iv) == ciphertext

decipherUpdate(ciphertext, key, iv) ==
    [i \in 1..Len(ciphertext) |-> (ciphertext[i] + 2 - keyStream(key, iv, i)) % 2]

\* cipher.getAuthTag(): GCM's tag over key, iv and ciphertext, taken forgery
\* free; one model byte of a wider alphabet.
getAuthTag(key, iv, ciphertext) == <<Pair(Pair(key, Num(iv)), Num(ciphertext)) + 2>>

\* Variant of decipher.final() that accepts every tag.
finalUnverified(authTag, key, iv, ciphertext) == TRUE

\* decipher.final(): throws unless the tag set by setAuthTag is the tag of
\* key, iv and ciphertext.
final(authTag, key, iv, ciphertext) == authTag = getAuthTag(key, iv, ciphertext)

\* Encryptor.encrypt with the salt and iv randomBytes returned.
encrypt(data, password, salt, iv) ==
    LET key == deriveKey(password, salt)
        encrypted == cipherUpdate(data, key, iv)
    IN  salt \o iv \o encrypted \o getAuthTag(key, iv, encrypted)

\* Encryptor.decrypt: [ok, data]; ok is false when decipher.final() throws.
EncryptorDecrypt(encryptedData0, password) ==
    LET salt == Slice(encryptedData0, 0, SALT_LENGTH)
        iv == Slice(encryptedData0, SALT_LENGTH, SALT_LENGTH + IV_LENGTH)
        authTag == Slice(encryptedData0, 0 - TAG_LENGTH, Len(encryptedData0))
        ciphertext == Slice(encryptedData0, SALT_LENGTH + IV_LENGTH, 0 - TAG_LENGTH)
        key == deriveKey(password, salt)
    IN  IF final(authTag, key, iv, ciphertext)
        THEN [ok |-> TRUE, data |-> decipherUpdate(ciphertext, key, iv)]
        ELSE [ok |-> FALSE, data |-> <<>>]

\* A stored blob with one byte changed, or with its last byte cut off.
Altered(blob) ==
    {[blob EXCEPT ![i] = IF @ <= 1 THEN 1 - @ ELSE @ + 1] : i \in 1..Len(blob)}
    \cup {SubSeq(blob, 1, Len(blob) - 1)}

encryptorEncrypt ==
    /\ rt.pc = "plain"
    /\ \E salt \in [1..SALT_LENGTH -> Bytes], iv \in [1..IV_LENGTH -> Bytes] :
           rt' = [rt EXCEPT !.pc = "stored",
                            !.blob = encrypt(rt.data, rt.password, salt, iv)]
    /\ UNCHANGED <<mountSide, index, chat, up, result, resumeSide, pullSide>>

blobAltered ==
    /\ rt.pc = "stored" /\ ~ rt.altered
    /\ \E blob \in Altered(rt.blob) : rt' = [rt EXCEPT !.blob = blob, !.altered = TRUE]
    /\ UNCHANGED <<mountSide, index, chat, up, result, resumeSide, pullSide>>

encryptorDecrypt ==
    /\ rt.pc = "stored"
    /\ \E password \in Passwords :
           rt' = [rt EXCEPT !.pc = "decrypted", !.used = password,
                            !.out = EncryptorDecrypt(rt.blob, password)]
    /\ UNCHANGED <<mountSide, index, chat, up, result, resumeSide, pullSide>>

\* The Encryptor alone: every payload of up to MaxLen bytes, every password.
InitCrypto ==
    /\ files = {} /\ chunks = {} /\ nextFileId = 1 /\ transport = <<>>
    /\ up = UpIdle /\ result = NoResult
    /\ pendingUploads = {} /\ pendingChunks = {} /\ nextPendingId = 1 /\ spill = <<>>
    /\ rs = RsIdle /\ resumeSends = <<>>
    /\ dl = DlIdle /\ output = NoOutput
    /\ fileCache = <<>> /\ writeBuffers = <<>> /\ now = 0
    /\ \E data \in Payloads, password \in Passwords :
           rt = [pc |-> "plain", data |-> data, password |-> password, blob |-> <<>>,
                 altered |-> FALSE, used |-> 0, out |-> [ok |-> FALSE, data |-> <<>>]]

NextCrypto == encryptorEncrypt \/ blobAltered \/ encryptorDecrypt

SpecCrypto == InitCrypto /\ [][NextCrypto]_vars

\* ------------------------------------------------ header codec (chunker.js)
\* The header in model bytes: the magic token, then little-endian numbers of
\* two model bytes (a model byte of a number is one bit; the code's fields are
\* 16 bits wide), the original size in SIZE_BYTES (the code's 8), and at most
\* NAME_MAX bytes of the name (the code's 42).
MAGIC == <<87, 65, 83, 49>>
SIZE_BYTES == 3
NAME_MAX == 2
FIXED_SIZE == Len(MAGIC) + 2 + 2 + SIZE_BYTES + 2 + 2 + 2
HEADER_SIZE == FIXED_SIZE + NAME_MAX

\* Buffer.from(filename, 'utf-8'): "a" is a one-byte character, "u" a
\* two-byte one (lead byte 2, continuation byte 3), "?" is U+FFFD.
RECURSIVE utf8(_)
utf8(string) ==
    IF string = <<>> THEN <<>>
    ELSE (CASE Head(string) = "a" -> <<1>>
            [] Head(string) = "u" -> <<2, 3>>
            [] OTHER -> <<4, 5, 6>>) \o utf8(Tail(string))

\* buffer.toString('utf-8'): a byte sequence that is no character decodes to
\* U+FFFD.
RECURSIVE toString(_)
toString(bytes) ==
    IF bytes = <<>> THEN <<>>
    ELSE IF Head(bytes) = 1 THEN <<"a">> \o toString(Tail(bytes))
    ELSE IF Len(bytes) >= 2 /\ bytes[1] = 2 /\ bytes[2] = 3
         THEN <<"u">> \o toString(SubSeq(bytes, 3, Len(bytes)))
    ELSE IF Len(bytes) >= 3 /\ SubSeq(bytes, 1, 3) = <<4, 5, 6>>
         THEN <<"?">> \o toString(SubSeq(bytes, 4, Len(bytes)))
    ELSE <<"?">> \o toString(Tail(bytes))

\* writeUInt16LE / writeBigUInt64LE: least significant byte first.
RECURSIVE writeLE(_, _)
writeLE(value, width) ==
    IF width = 0 THEN <<>> ELSE <<value % 2>> \o writeLE(value \div 2, width - 1)

\* Variant of the reader that takes the most significant byte first.
RECURSIVE readBE(_, _, _)
readBE(buffer, offset, width) ==
    IF width = 0 THEN 0
    ELSE buffer[offset + width] + 2 * readBE(buffer, offset, width - 1)

\* readUInt16LE / readBigUInt64LE at `offset` (within the buffer).
RECURSIVE readLE(_, _, _)
readLE(buffer, offset, width) ==
    IF width = 0 THEN 0
    ELSE buffer[offset + 1] + 2 * readLE(buffer, offset + 1, width - 1)

\* createHeader: Buffer.alloc(HEADER_SIZE), then the fields in order.
createHeader(filename, originalSize, chunkIndex, totalChunks, flags) ==
    LET filenameBytes == Slice(utf8(filename), 0, NAME_MAX)
        written == MAGIC \o writeLE(1, 2) \o writeLE(flags, 2)
                     \o writeLE(originalSize, SIZE_BYTES)
                     \o writeLE(chunkIndex, 2) \o writeLE(totalChunks, 2)
                     \o writeLE(Len(filenameBytes), 2) \o filenameBytes
    IN  written \o [i \in 1..(HEADER_SIZE - Len(written)) |-> 0]

BadHeader(error) ==
    [ok |-> FALSE, error |-> error, version |-> 0, flags |-> 0, compressed |-> FALSE,
     originalSize |-> 0, chunkIndex |-> 0, totalChunks |-> 0, filename |-> <<>>]

\* parseHeader: throws on bad magic bytes; a read past the end of the buffer
\* throws a RangeError; the name is whatever subarray finds.
parseHeader(buffer) ==
    IF Slice(buffer, 0, 4) # MAGIC THEN BadHeader("bad magic bytes")
    ELSE IF Len(buffer) < FIXED_SIZE THEN BadHeader("out of range")
    ELSE LET flags == readLE(buffer, 6, 2)
             filenameLength == readLE(buffer, FIXED_SIZE - 2, 2)
         IN  [ok |-> TRUE, error |-> "",
              version |-> readLE(buffer, 4, 2),
              flags |-> flags,
              compressed |-> (flags % 2 = 1),
              originalSize |-> readLE(buffer, 8, SIZE_BYTES),
              chunkIndex |-> readLE(buffer, 8 + SIZE_BYTES, 2),
              totalChunks |-> readLE(buffer, 10 + SIZE_BYTES, 2),
              filename |-> toString(Slice(buffer, FIXED_SIZE, FIXED_SIZE + filenameLength))]

headerCreate ==
    /\ rt.pc = "fields"
    /\ rt' = [rt EXCEPT !.pc = "header",
                        !.buffer = createHeader(rt.filename, rt.originalSize, rt.chunkIndex,
                                                rt.totalChunks, rt.flags)]
    /\ UNCHANGED <<mountSide, index, chat, up, result, resumeSide, pullSide>>

\* The buffer a caller hands to parseHeader is a cut-off header, or one whose
\* first byte is not the magic token's.
headerDamaged ==
    /\ rt.pc = "header" /\ ~ rt.damaged
    /\ \E buffer \in {SubSeq(rt.buffer, 1, n) : n \in 0..(HEADER_SIZE - 1)}
                      \cup {[rt.buffer EXCEPT ![1] = 0]} :
           rt' = [rt EXCEPT !.buffer = buffer, !.damaged = TRUE]
    /\ UNCHANGED <<mountSide, index, chat, up, result, resumeSide, pullSide>>

headerParse ==
    /\ rt.pc = "header"
    /\ rt' = [rt EXCEPT !.pc = "parsed", !.out = parseHeader(rt.buffer)]
    /\ UNCHANGED <<mountSide, index, chat, up, result, resumeSide, pullSide>>

\* The header codec alone: names of up to MaxName characters, every value of
\* the 16-bit fields, a small and a large original size.
HeaderNames == UNION {[1..n -> {"a", "u"}] : n \in 0..MaxName}
InitHeader ==
    /\ files = {} /\ chunks = {} /\ nextFileId = 1 /\ transport = <<>>
    /\ up = UpIdle /\ result = NoResult
    /\ pendingUploads = {} /\ pendingChunks = {} /\ nextPendingId = 1 /\ spill = <<>>
    /\ rs = RsIdle /\ resumeSends = <<>>
    /\ dl = DlIdle /\ output = NoOutput
    /\ fileCache = <<>> /\ writeBuffers = <<>> /\ now = 0
    /\ \E filename \in HeaderNames, originalSize \in {0, 6},
          chunkIndex \in 0..3, totalChunks \in 0..3, flags \in 0..3 :
           rt = [pc |-> "fields", filename |-> filename, originalSize |-> originalSize,
                 chunkIndex |-> chunkIndex, totalChunks |-> totalChunks, flags |-> flags,
                 buffer |-> <<>>, damaged |-> FALSE, out |-> BadHeader("")]

NextHeader == headerCreate \/ headerDamaged \/ headerParse

SpecHeader == InitHeader /\ [][NextHeader]_vars

\* ------------------------------------------------------------- Compressor
\* A filename is its base name followed by its dot-separated parts.
CompressNames ==
    {<<"a">>, <<"a", ".txt">>, <<"a", ".jpg">>, <<"a", ".JPG">>, <<"a", ".tar", ".gz">>}
SKIP_COMPRESSION == {".jpg", ".png", ".mp4", ".zip", ".gz", ".tar.gz", ".pdf"}

\* path.extname: the last dot-separated part, or the empty string.
extname(filename) == IF Len(filename) >= 2 THEN filename[Len(filename)] ELSE ""
toLowerCase(ext) == IF ext = ".JPG" THEN ".jpg" ELSE ext

\* Variant of shouldSkip that skips nothing.
skipNothing(filename) == FALSE

shouldSkip(filename) == toLowerCase(extname(filename)) \in SKIP_COMPRESSION

\* zlib.gzip: a member header, then each run of equal bytes as <<byte, length>>.
GZIP_ID == 31
RECURSIVE runs(_)
runs(data) ==
    IF data = <<>> THEN <<>>
    ELSE LET n == CHOOSE k \in 1..Len(data) :
                      /\ \A i \in 1..k : data[i] = data[1]
                      /\ (k = Len(data) \/ data[k + 1] # data[1])
         IN  <<data[1], n>> \o runs(SubSeq(data, n + 1, Len(data)))
gzip(data) == <<GZIP_ID>> \o runs(data)

\* zlib.gunzip: throws ("incorrect header check") unless the header is there.
RECURSIVE expand(_)
expand(pairs) ==
    IF Len(pairs) < 2 THEN <<>>
    ELSE [i \in 1..pairs[2] |-> pairs[1]] \o expand(SubSeq(pairs, 3, Len(pairs)))
gunzip(data) ==
    IF data # <<>> /\ Head(data) = GZIP_ID
    THEN [ok |-> TRUE, data |-> expand(Tail(data))]
    ELSE [ok |-> FALSE, data |-> <<>>]

\* Compressor.compress; gzipThrows is the catch branch.
compress(data, filename, gzipThrows) ==
    IF shouldSkip(filename) THEN [data |-> data, compressed |-> FALSE]
    ELSE IF gzipThrows THEN [data |-> data, compressed |-> FALSE]
    ELSE LET compressed == gzip(data)
         IN  IF Len(compressed) < Len(data)
             THEN [data |-> compressed, compressed |-> TRUE]
             ELSE [data |-> data, compressed |-> FALSE]

\* Compressor.decompress
decompress(data, wasCompressed) ==
    IF ~ wasCompressed THEN [ok |-> TRUE, data |-> data] ELSE gunzip(data)

compressorCompress ==
    /\ rt.pc = "raw"
    /\ \E gzipThrows \in BOOLEAN :
           rt' = [rt EXCEPT !.pc = "compressed",
                            !.c = compress(rt.data, rt.filename, gzipThrows)]
    /\ UNCHANGED <<mountSide, index, chat, up, result, resumeSide, pullSide>>

compressorDecompress ==
    /\ rt.pc = "compressed"
    /\ rt' = [rt EXCEPT !.pc = "decompressed", !.out = decompress(rt.c.data, rt.c.compressed)]
    /\ UNCHANGED <<mountSide, index, chat, up, result, resumeSide, pullSide>>

\* The Compressor alone: every payload of up to MaxLen + 1 bytes, names with
\* and without an extension of the skip set.
InitCompressor ==
    /\ files = {} /\ chunks = {} /\ nextFileId = 1 /\ transport = <<>>
    /\ up = UpIdle /\ result = NoResult
    /\ pendingUploads = {} /\ pendingChunks = {} /\ nextPendingId = 1 /\ spill = <<>>
    /\ rs = RsIdle /\ resumeSends = <<>>
    /\ dl = DlIdle /\ output = NoOutput
    /\ fileCache = <<>> /\ writeBuffers = <<>> /\ now = 0
    /\ \E data \in UNION {[1..n -> Bytes] : n \in 0..(MaxLen + 1)},
          filename \in CompressNames :
           rt = [pc |-> "raw", data |-> data, filename |-> filename,
                 c |-> [data |-> <<>>, compressed |-> FALSE],
                 out |-> [ok |-> FALSE, data |-> <<>>]]

NextCompressor == compressorCompress \/ compressorDecompress

SpecCompressor == InitCompressor /\ [][NextCompressor]_vars

\* ------------------------------------------- SyncEngine: ignore patterns
\* Names and paths are strings, character by character.
MaxDepth == 2

IsSuffix(p, str) == Len(p) <= Len(str) /\ SubSeq(str, Len(str) - Len(p) + 1, Len(str)) = p

\* IGNORE_PATTERNS.some(pattern => pattern.test(filename)):
\* /^\./, /~$/, /\.swp$/, /\.tmp$/, /node_modules/, /\.git/
shouldIgnore(filename) ==
    \/ IsPrefix(<<".">>, filename)
    \/ IsSuffix(<<"~">>, filename)
    \/ IsSuffix(<<".", "s", "w", "p">>, filename)
    \/ IsSuffix(<<".", "t", "m", "p">>, filename)
    \/ Contains(filename, <<"n", "o", "d", "e", "_", "m", "o", "d", "u", "l", "e", "s">>)
    \/ Contains(filename, <<".", "g", "i", "t">>)

\* path.join / path.relative: the entry names separated by "/".
RECURSIVE join(_)
join(entries) ==
    IF Len(entries) = 1 THEN entries[1]
    ELSE entries[1] \o <<"/">> \o join(Tail(entries))

\* scanDirectory on the way down to one file: an ignored entry is passed over,
\* a directory is descended into, a file is listed.
RECURSIVE lists(_)
lists(entries) ==
    IF shouldIgnore(Head(entries)) THEN FALSE
    ELSE IF Len(entries) = 1 THEN TRUE
    ELSE lists(Tail(entries))

\* handleFileChange goes on to set a timer for the relative path fs.watch
\* reports, unless shouldIgnore matches it.
handles(entries) == ~ shouldIgnore(join(entries))

\* The scan of the folder that holds the file.
ignoreScan ==
    /\ UNCHANGED <<mountSide, index, chat, up, result, resumeSide, pullSide>>
    /\ rt.scan = "not run"
    /\ rt' = [rt EXCEPT !.scan = IF lists(rt.entries) THEN "listed" ELSE "ignored"]

\* A change notification for the file.
ignoreNotify ==
    /\ UNCHANGED <<mountSide, index, chat, up, result, resumeSide, pullSide>>
    /\ rt.watch = "not run"
    /\ rt' = [rt EXCEPT !.watch = IF handles(rt.entries) THEN "handled" ELSE "ignored"]

\* One file of the synced folder, up to MaxDepth entries below its root.
EntryNames ==
    {<<"a">>, <<".", "a">>, <<"a", "~">>, <<"a", ".", "s", "w", "p">>,
     <<"a", ".", "t", "m", "p">>, <<".", "g", "i", "t">>, <<"a", ".", "g", "i", "t", "x">>,
     <<"n", "o", "d", "e", "_", "m", "o", "d", "u", "l", "e", "s">>}

InitIgnore ==
    /\ files = {} /\ chunks = {} /\ nextFileId = 1 /\ transport = <<>>
    /\ up = UpIdle /\ result = NoResult
    /\ pendingUploads = {} /\ pendingChunks = {} /\ nextPendingId = 1 /\ spill = <<>>
    /\ rs = RsIdle /\ resumeSends = <<>>
    /\ dl = DlIdle /\ output = NoOutput
    /\ fileCache = <<>> /\ writeBuffers = <<>> /\ now = 0
    /\ \E depth \in 1..MaxDepth : \E entries \in [1..depth -> EntryNames] :
           rt = [entries |-> entries, scan |-> "not run", watch |-> "not run"]

NextIgnore == ignoreScan \/ ignoreNotify

SpecIgnore == InitIgnore /\ [][NextIgnore]_vars

\* ------------------------------------------------------------- SyncEngine
\* The synced folder: relative path -> [mtime, content].  The sync_state table
\* of the folder: relative_path -> [file_hash, mtime].
MaxMtime == 2
MaxPasses == 2

\* scanDirectory: the folder's files with the mtime statSync reports, in
\* directory order.
\* Variant of the scan that reports every file with mtime 0.
RECURSIVE scanWithoutMtime(_, _)
scanWithoutMtime(folder, paths) ==
    IF paths = {} THEN <<>>
    ELSE LET first == CHOOSE q \in paths : \A other \in paths : Len(q) <= Len(other)
         IN  <<[relativePath |-> first, mtime |-> 0]>>
             \o scanWithoutMtime(folder, paths \ {first})

RECURSIVE scanDirectory(_, _)
scanDirectory(folder, paths) ==
    IF paths = {} THEN <<>>
    ELSE LET first == CHOOSE q \in paths : \A other \in paths : Len(q) <= Len(other)
         IN  <<[relativePath |-> first, mtime |-> folder[first].mtime]>>
             \o scanDirectory(folder, paths \ {first})

\* Variant of updateSyncState that stores nothing.
updateNothing(states, relativePath, fileHash, mtime) == states

\* INSERT INTO sync_state ... ON CONFLICT(folder_id, relative_path) DO UPDATE
updateSyncState(states, relativePath, fileHash, mtime) ==
    [q \in DOMAIN states \cup {relativePath} |->
        IF q = relativePath THEN [file_hash |-> fileHash, mtime |-> mtime] ELSE states[q]]

\* Error messages, word by word, and String.prototype.includes on them.
NoError == <<>>
DuplicateError == <<"File", "already", "uploaded", "duplicate", "hash">>
SendError == <<"socket", "hang", "up">>
\* Variant of includes that never finds the word.
includesNothing(message, word) == FALSE

includes(message, word) == \E i \in 1..Len(message) : message[i] = word

\* One call of processFile as syncFolder awaits it, the first `sends` calls of
\* sendFile succeeding: it throws 'File already uploaded (duplicate hash)' for
\* an indexed digest; else it adds the File row, then one Chunk row per sent
\* chunk, and throws at the send that fails.
processFile(filename, c, sends) ==
    LET hash == hashData(c)
        n == numChunks(Len(encryptedData(c)), TELEGRAM_CHUNK_SIZE)
        for(i) == sendFile(<<"file", nextFileId, i>>)
    IN  IF exists(files, hash)
        THEN [threw |-> DuplicateError, files |-> files, chunks |-> chunks,
              transport |-> transport, nextFileId |-> nextFileId]
        ELSE [threw |-> IF sends >= n THEN NoError ELSE SendError,
              files |-> addFile(files, filename, hash, n),
              chunks |-> chunks \cup
                  {[file_id |-> nextFileId, chunk_index |-> i,
                    message_id |-> for(i).messageId,
                    file_telegram_id |-> for(i).fileId] : i \in 0..(Min(sends, n) - 1)},
              transport |-> [msg \in DOMAIN transport
                                 \cup {for(i).messageId : i \in 0..(Min(sends, n) - 1)} |->
                                IF msg \in DOMAIN transport THEN transport[msg]
                                ELSE chunkFile(c, msg[3])],
              nextFileId |-> nextFileId + 1]

\* syncFolder up to its loop: scanDirectory, getFolderSyncStates.
syncFolderScan ==
    /\ UNCHANGED <<mountSide, index, chat, up, result, resumeSide, pullSide>>
    /\ rt.pc = "idle"
    /\ rt.pass < MaxPasses
    /\ LET files0 == scanDirectory(rt.folder, {q \in DOMAIN rt.folder : ~ shouldIgnore(q)})
       IN  rt' = [rt EXCEPT !.pc = IF files0 = <<>> THEN "idle" ELSE "looping",
                            !.queue = files0,
                            !.pass = rt.pass + 1,
                            !.uploaded = 0, !.skipped = 0, !.invoked = 0, !.errors = {},
                            !.prevFailed = rt.failed, !.failed = FALSE,
                            !.quiet = ~rt.edited, !.edited = FALSE]

\* The body of syncFolder's loop for one listed file: the store after it, the
\* first `sends` calls of sendFile succeeding, and how the file was counted.
scanned(relativePath, mtime, sends) ==
    LET known == relativePath \in DOMAIN rt.syncState
        content == rt.folder[relativePath].content
        hash == hashData(content)
        stored == updateSyncState(rt.syncState, relativePath, hash, mtime)
        call == processFile(relativePath, content, sends)
        same == [files |-> files, chunks |-> chunks, transport |-> transport,
                 nextFileId |-> nextFileId]
    IN  IF known /\ rt.syncState[relativePath].mtime >= mtime
        THEN same @@ [syncState |-> rt.syncState, counted |-> "skipped", invoked |-> FALSE]
        ELSE IF known /\ rt.syncState[relativePath].file_hash = hash
        THEN same @@ [syncState |-> stored, counted |-> "skipped", invoked |-> FALSE]
        ELSE [files |-> call.files, chunks |-> call.chunks, transport |-> call.transport,
              nextFileId |-> call.nextFileId]
             @@ (IF call.threw = NoError
                 THEN [syncState |-> stored, counted |-> "uploaded", invoked |-> TRUE]
                 ELSE IF includes(call.threw, "duplicate")
                 THEN [syncState |-> stored, counted |-> "skipped", invoked |-> TRUE]
                 ELSE [syncState |-> rt.syncState, counted |-> "error", invoked |-> TRUE])

\* One turn of syncFolder's loop, and its return after the last one.
syncFolderFile ==
    /\ UNCHANGED <<mountSide, up, result, resumeSide, pullSide>>
    /\ rt.pc = "looping"
    /\ LET file == Head(rt.queue)
           rest == Tail(rt.queue)
           n == numChunks(Len(encryptedData(rt.folder[file.relativePath].content)),
                          TELEGRAM_CHUNK_SIZE)
       IN  \E sends \in 0..n :
           LET after == scanned(file.relativePath, file.mtime, sends)
           IN  /\ after.nextFileId <= MaxFiles + 1
               /\ files' = after.files
               /\ chunks' = after.chunks
               /\ transport' = after.transport
               /\ nextFileId' = after.nextFileId
               /\ rt' = [rt EXCEPT
                            !.pc = IF rest = <<>> THEN "idle" ELSE "looping",
                            !.queue = rest,
                            !.syncState = after.syncState,
                            !.uploaded = IF after.counted = "uploaded" THEN @ + 1 ELSE @,
                            !.skipped = IF after.counted = "skipped" THEN @ + 1 ELSE @,
                            !.invoked = IF after.invoked THEN @ + 1 ELSE @,
                            !.failed = IF after.counted = "error" THEN TRUE ELSE @,
                            !.errors = IF after.counted = "error"
                                       THEN @ \cup {file.relativePath} ELSE @]

\* One turn of syncFolder's loop in which hashFile rejects (the file cannot be
\* read, or is gone since scanDirectory listed it): the call is outside the
\* try block, so syncFolder rejects and the rest of the list gets no turn.
syncFolderHashFails ==
    /\ UNCHANGED <<mountSide, index, chat, up, result, resumeSide, pullSide>>
    /\ rt.pc = "looping"
    /\ LET file == Head(rt.queue)
           known == file.relativePath \in DOMAIN rt.syncState
       IN  ~ (known /\ rt.syncState[file.relativePath].mtime >= file.mtime)
    /\ rt' = [rt EXCEPT !.pc = "idle", !.queue = <<>>, !.failed = TRUE]

\* processFileChange, the re-evaluation of one path after its debounce: no
\* upload when the digest equals the persisted one; else processFile, and Sync
\* State is written when it succeeds.  A duplicate error is dropped, any other
\* is emitted as file-upload-error.  rt.errors holds the paths an error event
\* was emitted for since the last scan began.  reevaluated is the store after
\* it, the first `sends` calls of sendFile succeeding.
reevaluated(filename, sends) ==
    LET stats == rt.folder[filename]
        hash == hashData(stats.content)
        call == processFile(filename, stats.content, sends)
        same == [files |-> files, chunks |-> chunks, transport |-> transport,
                 nextFileId |-> nextFileId, syncState |-> rt.syncState, errors |-> rt.errors]
    IN  IF filename \notin DOMAIN rt.folder
        THEN same
        ELSE IF filename \in DOMAIN rt.syncState /\ rt.syncState[filename].file_hash = hash
        THEN same
        ELSE [files |-> call.files, chunks |-> call.chunks, transport |-> call.transport,
              nextFileId |-> call.nextFileId,
              syncState |-> IF call.threw = NoError
                            THEN updateSyncState(rt.syncState, filename, hash, stats.mtime)
                            ELSE rt.syncState,
              errors |-> IF call.threw # NoError /\ ~ includes(call.threw, "duplicate")
                         THEN rt.errors \cup {filename}
                         ELSE rt.errors]

processFileChange(filename) ==
    /\ UNCHANGED <<mountSide, up, result, resumeSide, pullSide>>
    /\ rt.pc = "idle"
    /\ filename \in DOMAIN rt.folder
    /\ \E sends \in 0..TELEGRAM_CHUNK_SIZE :
       LET after == reevaluated(filename, sends)
       IN  /\ after.nextFileId <= MaxFiles + 1
           /\ files' = after.files
           /\ chunks' = after.chunks
           /\ transport' = after.transport
           /\ nextFileId' = after.nextFileId
           /\ rt' = [rt EXCEPT !.syncState = after.syncState, !.errors = after.errors]

\* ---------------------------------------------- SyncEngine: the debounce
\* DEBOUNCE_MS, and the clock, in units of half the quiescence window.
DEBOUNCE_MS == 2
MaxTime == 4

\* Variant of clearTimeout that cancels nothing.
clearNothing(timers, key, due) == timers

\* clearTimeout(this.pendingChanges.get(key))
clearTimeout(timers, key, due) == timers \ {[key |-> key, due |-> due]}

\* handleFileChange: nothing for an ignored name; else the path's timer, if it
\* has one, is cleared and a new one is set.  rt.lastEvent and rt.bursts
\* record when the path was last notified and how many runs of notifications
\* it has had, a run beginning when the path has no timer.
handleFileChange(filename) ==
    /\ UNCHANGED <<mountSide, index, chat, up, result, resumeSide, pullSide>>
    /\ rt.watching
    /\ IF shouldIgnore(filename)
       THEN UNCHANGED rt
       ELSE LET key == filename
                pending == key \in DOMAIN rt.pendingChanges
                cleared == IF pending
                           THEN clearTimeout(rt.timers, key, rt.pendingChanges[key])
                           ELSE rt.timers
                timeout == [key |-> key, due |-> rt.clock + DEBOUNCE_MS]
            IN  rt' = [rt EXCEPT
                         !.timers = cleared \cup {timeout},
                         !.pendingChanges = [k \in DOMAIN rt.pendingChanges \cup {key} |->
                                               IF k = key THEN timeout.due
                                               ELSE rt.pendingChanges[k]],
                         !.lastEvent[key] = rt.clock,
                         !.bursts[key] = IF pending THEN @ ELSE @ + 1]

\* A timer is due: pendingChanges.delete(key), then processFileChange.
timerFires(timeout) ==
    /\ UNCHANGED <<mountSide, up, result, resumeSide, pullSide>>
    /\ timeout \in rt.timers
    /\ timeout.due <= rt.clock
    /\ \E sends \in 0..TELEGRAM_CHUNK_SIZE :
       LET after == reevaluated(timeout.key, sends)
       IN  /\ after.nextFileId <= MaxFiles + 1
           /\ files' = after.files
           /\ chunks' = after.chunks
           /\ transport' = after.transport
           /\ nextFileId' = after.nextFileId
           /\ rt' = [rt EXCEPT
                        !.syncState = after.syncState,
                        !.errors = after.errors,
                        !.timers = rt.timers \ {timeout},
                        !.pendingChanges = [k \in DOMAIN rt.pendingChanges \ {timeout.key} |->
                                              rt.pendingChanges[k]],
                        !.evaluations[timeout.key] = @ + 1]

\* stop(): clearTimeout for every value of pendingChanges, pendingChanges.clear(),
\* and every watcher is closed, so that no notification is delivered any more.
stop ==
    /\ UNCHANGED <<mountSide, index, chat, up, result, resumeSide, pullSide>>
    /\ rt.watching
    /\ LET RECURSIVE cleared(_, _)
           cleared(timers, keys) ==
               IF keys = {} THEN timers
               ELSE LET key == CHOOSE k \in keys : TRUE
                    IN  cleared(clearTimeout(timers, key, rt.pendingChanges[key]), keys \ {key})
       IN  rt' = [rt EXCEPT !.timers = cleared(rt.timers, DOMAIN rt.pendingChanges),
                            !.pendingChanges = <<>>,
                            !.watching = FALSE]

\* Time passes; a timer that is due runs before the clock moves on.
watchTick ==
    /\ UNCHANGED <<mountSide, index, chat, up, result, resumeSide, pullSide>>
    /\ rt.clock < MaxTime
    /\ \A timeout \in rt.timers : timeout.due > rt.clock
    /\ rt' = [rt EXCEPT !.clock = rt.clock + 1]

\* Between two passes a file of the folder is written: its mtime advances and
\* its content becomes c.
fileChanged(path, c) ==
    /\ UNCHANGED <<mountSide, index, chat, up, result, resumeSide, pullSide>>
    /\ rt.pc = "idle"
    /\ path \in DOMAIN rt.folder
    /\ rt.folder[path].mtime < MaxMtime
    /\ rt' = [rt EXCEPT !.folder[path] = [mtime |-> rt.folder[path].mtime + 1, content |-> c],
                        !.edited = TRUE]

\* A folder of one or two files that was never synced.
InitSync ==
    /\ files = {} /\ chunks = {} /\ nextFileId = 1 /\ transport = <<>>
    /\ up = UpIdle /\ result = NoResult
    /\ pendingUploads = {} /\ pendingChunks = {} /\ nextPendingId = 1 /\ spill = <<>>
    /\ rs = RsIdle /\ resumeSends = <<>>
    /\ dl = DlIdle /\ output = NoOutput
    /\ fileCache = <<>> /\ writeBuffers = <<>> /\ now = 0
    /\ \E paths \in SUBSET Names \ {{}} :
       \E folder \in [paths -> [mtime : {1}, content : Contents]] :
           rt = [pc |-> "idle", folder |-> folder, syncState |-> <<>>, queue |-> <<>>,
                 pass |-> 0, uploaded |-> 0, skipped |-> 0, invoked |-> 0, errors |-> {},
                 failed |-> FALSE, prevFailed |-> FALSE, edited |-> FALSE, quiet |-> FALSE]

NextSync ==
    \/ syncFolderScan
    \/ syncFolderFile
    \/ syncFolderHashFails
    \/ \E path \in Names, c \in Contents : fileChanged(path, c)
    \/ \E filename \in Names : processFileChange(filename)

SpecSync == InitSync /\ [][NextSync]_vars

\* The watch on a synced folder of two files and a hidden one.
WatchNames == Names \cup {<<".", "a">>}

InitWatch ==
    /\ files = {} /\ chunks = {} /\ nextFileId = 1 /\ transport = <<>>
    /\ up = UpIdle /\ result = NoResult
    /\ pendingUploads = {} /\ pendingChunks = {} /\ nextPendingId = 1 /\ spill = <<>>
    /\ rs = RsIdle /\ resumeSends = <<>>
    /\ dl = DlIdle /\ output = NoOutput
    /\ fileCache = <<>> /\ writeBuffers = <<>> /\ now = 0
    /\ \E folder \in [WatchNames -> [mtime : {1}, content : Contents]] :
           rt = [pc |-> "idle", folder |-> folder, syncState |-> <<>>, errors |-> {},
                 clock |-> 0, timers |-> {}, pendingChanges |-> <<>>, watching |-> TRUE,
                 lastEvent |-> [k \in WatchNames |-> 0],
                 bursts |-> [k \in WatchNames |-> 0],
                 evaluations |-> [k \in WatchNames |-> 0]]

NextWatch ==
    \/ \E filename \in WatchNames : handleFileChange(filename)
    \/ \E timeout \in rt.timers : timerFires(timeout)
    \/ watchTick

SpecWatch == InitWatch /\ [][NextWatch]_vars

\* The watch, and the engine being stopped.
NextWatchStop == NextWatch \/ stop

SpecWatchStop == InitWatch /\ [][NextWatchStop]_vars

\* ------------------------------------------- FileIndex: tags and sync tables
\* The rows of tags, chunks, sync_folders and sync_state, with their keys and
\* their ON DELETE CASCADE references.  rt holds the tables.
MaxTags == 3
MaxFolderIds == 2

\* Code point order of the characters used in tags.
charCode(ch) ==
    CASE ch = " " -> 32
      [] ch = "A" -> 65
      [] ch = "B" -> 66
      [] ch = "a" -> 97
      [] ch = "b" -> 98

\* String.prototype.toLowerCase, character by character.
lowerChar(ch) ==
    CASE ch = "A" -> "a"
      [] ch = "B" -> "b"
      [] OTHER -> ch

lowerCase(str) == [i \in 1..Len(str) |-> lowerChar(str[i])]

\* String.prototype.trim: whitespace is removed at both ends only.
RECURSIVE trimStart(_)
trimStart(str) ==
    IF str # <<>> /\ Head(str) = " " THEN trimStart(Tail(str)) ELSE str

RECURSIVE trimEnd(_)
trimEnd(str) ==
    IF str # <<>> /\ str[Len(str)] = " "
    THEN trimEnd(SubSeq(str, 1, Len(str) - 1))
    ELSE str

trim(str) == trimEnd(trimStart(str))

\* Variant that stores the tag as it was given.
verbatim(tag) == tag

\* tag.toLowerCase().trim()
normalized(tag) == trim(lowerCase(tag))

\* The BINARY collation of ORDER BY tag: bytewise, a prefix first.
RECURSIVE before(_, _)
before(s, t) ==
    IF s = <<>> THEN t # <<>>
    ELSE IF t = <<>> THEN FALSE
    ELSE IF Head(s) # Head(t) THEN charCode(Head(s)) < charCode(Head(t))
    ELSE before(Tail(s), Tail(t))

RECURSIVE orderBy(_)
orderBy(tags) ==
    IF tags = {} THEN <<>>
    ELSE LET first == CHOOSE t \in tags : \A u \in tags \ {t} : before(t, u)
         IN  <<first>> \o orderBy(tags \ {first})

\* SELECT tag FROM tags WHERE file_id = ? ORDER BY tag
getFileTags(fileId) ==
    orderBy({rt.tags[i].tag : i \in {j \in 1..Len(rt.tags) : rt.tags[j].file_id = fileId}})

\* Variant of ON DELETE CASCADE that leaves the referencing rows.
noCascade(rows, parent) == rows

\* ON DELETE CASCADE: the rows that reference the deleted parent go with it.
cascade(rows, parent) == {r \in rows : r.parent # parent}

\* INSERT OR IGNORE INTO tags: a row that exists for (file_id, tag) is kept and
\* nothing is added; a file_id without a File row is refused.
addTag(fileId, tag) ==
    /\ UNCHANGED <<mountSide, index, chat, up, result, resumeSide, pullSide>>
    /\ fileId \in rt.files
    /\ LET row == [file_id |-> fileId, tag |-> normalized(tag)]
       IN  IF \E i \in 1..Len(rt.tags) : rt.tags[i] = row
           THEN UNCHANGED rt
           ELSE /\ Len(rt.tags) < MaxTags
                /\ rt' = [rt EXCEPT !.tags = Append(rt.tags, row)]

\* DELETE FROM tags WHERE file_id = ? AND tag = ?
removeTag(fileId, tag) ==
    /\ UNCHANGED <<mountSide, index, chat, up, result, resumeSide, pullSide>>
    /\ LET row == [file_id |-> fileId, tag |-> normalized(tag)]
       IN  rt' = [rt EXCEPT !.tags = SelectSeq(rt.tags, LAMBDA r : r # row)]

\* delete(fileId): DELETE FROM files WHERE id = ?, and the cascades to chunks
\* and tags.  rt.swept names the tables a cascade has removed rows from.
deleteRow(fileId) ==
    /\ UNCHANGED <<mountSide, index, chat, up, result, resumeSide, pullSide>>
    /\ fileId \in rt.files
    /\ LET tagRows == {[parent |-> rt.tags[i].file_id, at |-> i] : i \in 1..Len(rt.tags)}
           tagsLeft == {r.at : r \in cascade(tagRows, fileId)}
           chunkRows == {[parent |-> ch.file_id, row |-> ch] : ch \in rt.chunks}
           chunksLeft == {r.row : r \in cascade(chunkRows, fileId)}
           keptTags == [i \in 1..Len(rt.tags) |-> [at |-> i, row |-> rt.tags[i]]]
       IN  rt' = [rt EXCEPT
                    !.files = rt.files \ {fileId},
                    !.tags = [i \in 1..Len(SelectSeq(keptTags, LAMBDA k : k.at \in tagsLeft)) |->
                                SelectSeq(keptTags, LAMBDA k : k.at \in tagsLeft)[i].row],
                    !.chunks = chunksLeft,
                    !.swept = rt.swept
                              \cup (IF Cardinality(tagsLeft) < Len(rt.tags) THEN {"tags"} ELSE {})
                              \cup (IF chunksLeft # rt.chunks THEN {"chunks"} ELSE {})]

\* SELECT * FROM sync_folders WHERE local_path = ?
getSyncFolderByPath(localPath) == {f \in rt.sync_folders : f.local_path = localPath}

\* SELECT * FROM sync_state WHERE folder_id = ?
getFolderSyncStates(folderId) == {s \in rt.sync_state : s.folder_id = folderId}

\* addSyncFolder: INSERT OR IGNORE INTO sync_folders; local_path is UNIQUE and
\* the id is AUTOINCREMENT, so an id is never given twice.
addSyncFolder(localPath) ==
    /\ UNCHANGED <<mountSide, index, chat, up, result, resumeSide, pullSide>>
    /\ IF getSyncFolderByPath(localPath) # {}
       THEN UNCHANGED rt
       ELSE /\ rt.nextFolderId <= MaxFolderIds
            /\ rt' = [rt EXCEPT
                        !.sync_folders = @ \cup {[id |-> rt.nextFolderId, local_path |-> localPath]},
                        !.nextFolderId = @ + 1]

\* removeSyncFolder: DELETE FROM sync_folders WHERE local_path = ?, and the
\* cascade to sync_state.
removeSyncFolder(localPath) ==
    /\ UNCHANGED <<mountSide, index, chat, up, result, resumeSide, pullSide>>
    /\ LET gone == {f.id : f \in getSyncFolderByPath(localPath)}
           stateRows == {[parent |-> s.folder_id, row |-> s] : s \in rt.sync_state}
           RECURSIVE sweep(_, _)
           sweep(rows, ids) ==
               IF ids = {} THEN rows
               ELSE LET id == CHOOSE x \in ids : TRUE
                    IN  sweep(cascade(rows, id), ids \ {id})
           statesLeft == {r.row : r \in sweep(stateRows, gone)}
       IN  rt' = [rt EXCEPT
                    !.sync_folders = {f \in @ : f.local_path # localPath},
                    !.sync_state = statesLeft,
                    !.swept = @ \cup (IF statesLeft # rt.sync_state THEN {"sync_state"} ELSE {})]

\* updateSyncState of the index: an upsert on (folder_id, relative_path); a
\* folder_id without a Sync Folder row is refused.
upsertSyncState(folderId, relativePath, mtime) ==
    /\ UNCHANGED <<mountSide, index, chat, up, result, resumeSide, pullSide>>
    /\ folderId \in {f.id : f \in rt.sync_folders}
    /\ rt' = [rt EXCEPT
                !.sync_state = {s \in @ : ~ (s.folder_id = folderId /\ s.relative_path = relativePath)}
                               \cup {[folder_id |-> folderId, relative_path |-> relativePath,
                                      mtime |-> mtime]}]

\* The index with two File rows, their Chunk rows, and no tags or folders.
TagInputs == {<<"a">>, <<"A">>, <<" ", "a", " ">>, <<"B">>, <<"b", " ">>, <<"a", " ", "B">>}
FolderPaths == {<<"a">>}

InitDb ==
    /\ files = {} /\ chunks = {} /\ nextFileId = 1 /\ transport = <<>>
    /\ up = UpIdle /\ result = NoResult
    /\ pendingUploads = {} /\ pendingChunks = {} /\ nextPendingId = 1 /\ spill = <<>>
    /\ rs = RsIdle /\ resumeSends = <<>>
    /\ dl = DlIdle /\ output = NoOutput
    /\ fileCache = <<>> /\ writeBuffers = <<>> /\ now = 0
    /\ rt = [files |-> {1, 2},
             chunks |-> {[file_id |-> 1, chunk_index |-> 0],
                         [file_id |-> 2, chunk_index |-> 0],
                         [file_id |-> 2, chunk_index |-> 1]},
             tags |-> <<>>,
             sync_folders |-> {}, nextFolderId |-> 1, sync_state |-> {},
             swept |-> {}]

NextDb ==
    \/ \E fileId \in {1, 2}, tag \in TagInputs : addTag(fileId, tag)
    \/ \E fileId \in {1, 2}, tag \in TagInputs : removeTag(fileId, tag)
    \/ \E fileId \in {1, 2} : deleteRow(fileId)
    \/ \E localPath \in FolderPaths : addSyncFolder(localPath)
    \/ \E localPath \in FolderPaths : removeSyncFolder(localPath)
    \/ \E folderId \in 1..MaxFolderIds, relativePath \in Names, mtime \in 1..2 :
           upsertSyncState(folderId, relativePath, mtime)

SpecDb == InitDb /\ [][NextDb]_vars

\* ------------------------------------- TelegramFS: the bytes of the buffers
\* Buffers are views [mem, length] of memory blocks in rt.heap, so that a copy
\* and a view of the same memory differ.  rt.writeBuffers and rt.fileCache are
\* the two maps, rt.now is Date.now().
MaxBytes == 3

\* The bytes a buffer shows.
bytesOf(heap, buf) == SubSeq(heap[buf.mem], 1, buf.length)

\* The address of the next block: the least one no buffer refers to.
freeAddress(heap) == CHOOSE a \in 1..(Cardinality(DOMAIN heap) + 1) : a \notin DOMAIN heap

\* Buffer.alloc(size): a new zero-filled block.
alloc(heap, size) ==
    LET a == freeAddress(heap)
    IN  [heap |-> [b \in DOMAIN heap \cup {a} |-> IF b = a THEN [i \in 1..size |-> 0] ELSE heap[b]],
         buf |-> [mem |-> a, length |-> size]]

\* Variant of copy that ignores targetStart.
copyToStart(heap, source, target, targetStart, sourceStart, sourceEnd) ==
    LET end == Min(sourceEnd, Len(source))
        count == Min(end - sourceStart, target.length)
    IN  [heap EXCEPT ![target.mem] =
            [i \in 1..Len(@) |-> IF i <= count THEN source[sourceStart + i] ELSE @[i]]]

\* source.copy(target, targetStart, sourceStart, sourceEnd): as many bytes as
\* the source has before sourceEnd and the target has room for.
copy(heap, source, target, targetStart, sourceStart, sourceEnd) ==
    LET end == Min(sourceEnd, Len(source))
        count == Min(end - sourceStart, target.length - targetStart)
    IN  [heap EXCEPT ![target.mem] =
            [i \in 1..Len(@) |->
               IF targetStart < i /\ i <= targetStart + count
               THEN source[sourceStart + i - targetStart]
               ELSE @[i]]]

\* Variant of Buffer.from that returns the buffer it was given.
sameMemory(heap, buf) == [heap |-> heap, buf |-> buf]

\* Buffer.from(buffer): a new block holding a copy of the bytes.
from(heap, buf) ==
    LET made == alloc(heap, buf.length)
    IN  [heap |-> copy(made.heap, bytesOf(heap, buf), made.buf, 0, 0, buf.length),
         buf |-> made.buf]

\* buf.subarray(0, size): a view of the same memory.
subarrayFromStart(buf, size) == [mem |-> buf.mem, length |-> Min(size, buf.length)]

\* getCached: the entry's data, or nothing when there is no entry or it has
\* expired, and an expired entry is deleted.
getCachedBytes(filename) ==
    IF filename \notin DOMAIN rt.fileCache
    THEN [hit |-> FALSE, fileCache |-> rt.fileCache]
    ELSE IF rt.now - rt.fileCache[filename].timestamp > CACHE_TTL
    THEN [hit |-> FALSE,
          fileCache |-> [k \in DOMAIN rt.fileCache \ {filename} |-> rt.fileCache[k]]]
    ELSE [hit |-> TRUE, fileCache |-> rt.fileCache]

\* The memory no buffer and no cache entry shows is reclaimed.
reclaimed(heap, buffers, cache) ==
    LET views == {buffers[k].data : k \in DOMAIN buffers} \cup {cache[k].data : k \in DOMAIN cache}
        shown(a) == CHOOSE n \in {v.length : v \in {w \in views : w.mem = a}} :
                        \A v \in views : v.mem = a => v.length <= n
    IN  [a \in {v.mem : v \in views} |-> SubSeq(heap[a], 1, shown(a))]

\* The map with one entry set.
withBuffer(buffers, filename, buf) ==
    [k \in DOMAIN buffers \cup {filename} |->
        IF k = filename THEN [data |-> buf, modified |-> TRUE] ELSE buffers[k]]

\* write(filepath, fd, buffer, length, position): get or create the write
\* buffer, expand it when the write ends past its end, copy the bytes in.
writeAt(filename, buffer, length, position) ==
    /\ UNCHANGED <<mountSide, index, chat, up, result, resumeSide, pullSide>>
    /\ position + length <= MaxBytes
    /\ LET created == IF filename \in DOMAIN rt.writeBuffers
                      THEN [heap |-> rt.heap, buf |-> rt.writeBuffers[filename].data]
                      ELSE alloc(rt.heap, 0)
           newSize == IF created.buf.length >= position + length
                      THEN created.buf.length ELSE position + length
           newBuf == alloc(created.heap, newSize)
           expanded == IF newSize > created.buf.length
                       THEN [heap |-> copy(newBuf.heap, bytesOf(created.heap, created.buf),
                                           newBuf.buf, 0, 0, created.buf.length),
                             buf |-> newBuf.buf]
                       ELSE created
           written == copy(expanded.heap, buffer, expanded.buf, position, 0, length)
           buffers == withBuffer(rt.writeBuffers, filename, expanded.buf)
       IN  rt' = [rt EXCEPT !.writeBuffers = buffers,
                            !.heap = reclaimed(written, buffers, rt.fileCache)]

\* truncate(filepath, size): get the write buffer, or make it from a copy of
\* the cached bytes, or empty; then cut it to a view or extend it with zeros.
truncate(filename, size) ==
    /\ UNCHANGED <<mountSide, index, chat, up, result, resumeSide, pullSide>>
    /\ LET had == filename \in DOMAIN rt.writeBuffers
           cached == IF had THEN [hit |-> FALSE, fileCache |-> rt.fileCache]
                     ELSE getCachedBytes(filename)
           loaded == IF had
                     THEN [heap |-> rt.heap, buf |-> rt.writeBuffers[filename].data]
                     ELSE IF cached.hit
                     THEN from(rt.heap, rt.fileCache[filename].data)
                     ELSE alloc(rt.heap, 0)
           newBuf == alloc(loaded.heap, size)
           sized == IF size < loaded.buf.length
                    THEN [heap |-> loaded.heap, buf |-> subarrayFromStart(loaded.buf, size)]
                    ELSE IF size > loaded.buf.length
                    THEN [heap |-> copy(newBuf.heap, bytesOf(loaded.heap, loaded.buf),
                                        newBuf.buf, 0, 0, loaded.buf.length),
                          buf |-> newBuf.buf]
                    ELSE loaded
           buffers == withBuffer(rt.writeBuffers, filename, sized.buf)
       IN  rt' = [rt EXCEPT !.writeBuffers = buffers,
                            !.fileCache = cached.fileCache,
                            !.heap = reclaimed(sized.heap, buffers, cached.fileCache)]

\* One name, indexed, read before and cached, the entry fresh or expired;
\* rt.stored is the content the index and the chat hold for it.
BufferNames == {<<"a">>}
CachedBytes == <<1, 2>>
WriteData == {<<1>>, <<2>>, <<2, 1>>, <<1, 1>>}

InitBuffers ==
    /\ files = {} /\ chunks = {} /\ nextFileId = 1 /\ transport = <<>>
    /\ up = UpIdle /\ result = NoResult
    /\ pendingUploads = {} /\ pendingChunks = {} /\ nextPendingId = 1 /\ spill = <<>>
    /\ rs = RsIdle /\ resumeSends = <<>>
    /\ dl = DlIdle /\ output = NoOutput
    /\ fileCache = <<>> /\ writeBuffers = <<>> /\ now = 0
    /\ \E clock \in {CACHE_TTL, CACHE_TTL + 1} :
           rt = [heap |-> [a \in {1} |-> CachedBytes],
                 fileCache |-> [k \in {<<"a">>} |->
                                  [data |-> [mem |-> 1, length |-> Len(CachedBytes)],
                                   timestamp |-> 0]],
                 writeBuffers |-> <<>>,
                 stored |-> [k \in BufferNames |-> CachedBytes],
                 now |-> clock]

NextBuffers ==
    \/ \E filename \in BufferNames, buffer \in WriteData, length \in 0..2, position \in 0..MaxBytes :
           /\ length <= Len(buffer)
           /\ writeAt(filename, buffer, length, position)
    \/ \E filename \in BufferNames, size \in 0..MaxBytes : truncate(filename, size)

SpecBuffers == InitBuffers /\ [][NextBuffers]_vars

\* ------------------------------------------- processFile, two at a time
\* Two calls of processFile in one process (a scan and a watch re-evaluation,
\* or two re-evaluations), interleaved at their awaits: the duplicate check,
\* then compression, encryption and the connection, then addFile, then one
\* sendFile and addChunk at a time.  rt.call holds where each call is.
Callers == {1, 2}
CallIdle == [pc |-> "idle", filename |-> <<>>, content |-> 0, fileId |-> 0, index |-> 0,
             total |-> 0]

\* processFile is called: hashFile, then db.exists(hash).
callChecks(p, filename, c) ==
    /\ UNCHANGED <<mountSide, index, chat, up, result, resumeSide, pullSide>>
    /\ rt.call[p].pc \in {"idle", "uploaded", "duplicate", "failed", "send_failed"}
    /\ rt' = [rt EXCEPT !.call[p] =
                [pc |-> IF exists(files, hashData(c)) THEN "duplicate" ELSE "prepared",
                 filename |-> filename, content |-> c, fileId |-> 0, index |-> 0,
                 total |-> numChunks(Len(encryptedData(c)), TELEGRAM_CHUNK_SIZE)]]

\* After the awaits of compress and initialize: db.addFile, which throws when
\* the UNIQUE constraint on hash is violated.
callAddsFile(p) ==
    /\ UNCHANGED <<mountSide, chunks, chat, up, result, resumeSide, pullSide>>
    /\ rt.call[p].pc = "prepared"
    /\ LET hash == hashData(rt.call[p].content)
       IN  IF hashUnique(files, hash)
           THEN /\ nextFileId <= MaxFiles
                /\ files' = addFile(files, rt.call[p].filename, hash, rt.call[p].total)
                /\ nextFileId' = nextFileId + 1
                /\ rt' = [rt EXCEPT !.call[p].pc = "sending", !.call[p].fileId = nextFileId]
           ELSE /\ rt' = [rt EXCEPT !.call[p].pc = "failed"]
                /\ UNCHANGED <<files, nextFileId>>

\* One turn of the send loop: sendFile, then addChunk.
callSends(p) ==
    /\ UNCHANGED <<mountSide, files, nextFileId, up, result, resumeSide, pullSide>>
    /\ rt.call[p].pc = "sending"
    /\ LET me == rt.call[p]
           sent == sendFile(<<"file", me.fileId, me.index>>)
       IN  /\ transport' = Stored(transport, sent.messageId, chunkFile(me.content, me.index))
           /\ chunks' = addChunk(chunks, me.fileId, me.index, sent.messageId, sent.fileId)
           /\ rt' = [rt EXCEPT !.call[p].index = me.index + 1,
                               !.call[p].pc = IF me.index + 1 = me.total
                                              THEN "uploaded" ELSE "sending"]

\* sendFile throws, and processFile with it.
callSendFails(p) ==
    /\ UNCHANGED <<mountSide, index, chat, up, result, resumeSide, pullSide>>
    /\ rt.call[p].pc = "sending"
    /\ rt' = [rt EXCEPT !.call[p].pc = "send_failed"]

InitRace ==
    /\ files = {} /\ chunks = {} /\ nextFileId = 1 /\ transport = <<>>
    /\ up = UpIdle /\ result = NoResult
    /\ pendingUploads = {} /\ pendingChunks = {} /\ nextPendingId = 1 /\ spill = <<>>
    /\ rs = RsIdle /\ resumeSends = <<>>
    /\ dl = DlIdle /\ output = NoOutput
    /\ fileCache = <<>> /\ writeBuffers = <<>> /\ now = 0
    /\ rt = [call |-> [p \in Callers |-> CallIdle]]

NextRace ==
    \/ \E p \in Callers, filename \in Names, c \in Contents : callChecks(p, filename, c)
    \/ \E p \in Callers : callAddsFile(p)
    \/ \E p \in Callers : callSends(p)
    \/ \E p \in Callers : callSendFails(p)

SpecRace == InitRace /\ [][NextRace]_vars

\* =================================================================== claims
\* ---- C1 (SpecPipeline) --------------------------------------------------
\* C1: in every reachable state of the index, also the one a crash during an
\* upload leaves, every File row with chunks = n has Chunk rows for exactly
\* the indices 0..n-1.  processFile calls addFile before its send loop, so
\* the state right after processFileStart, and the one processFileKilled
\* leaves, violate it.
C1_FileRowHasEveryChunk ==
    \A f \in files : {ch.chunk_index : ch \in getChunks(f.id)} = 0..(f.chunks - 1)

\* A crash left a File row with fewer Chunk rows than it counts.
C1_CrashLeftPartialFile ==
    /\ result.op = "push" /\ result.outcome = "killed"
    /\ \E f \in files : f.hash = result.hash /\ Cardinality(getChunks(f.id)) < f.chunks

\* ---- C2 (SpecPipeline) --------------------------------------------------
\* C2: after a chunk send of processFile failed, the index holds no File row
\* for that content hash.  The File row addFile wrote before the loop stays.
C2_NoFileRowAfterFailedSend ==
    (result.op = "push" /\ result.outcome = "send_failed")
        => ~ \E f \in files : f.hash = result.hash

\* A send failed after an earlier chunk of the same file went through.
C2_SendFailedMidway ==
    result.op = "push" /\ result.outcome = "send_failed" /\ result.sent >= 1

\* ---- C3 (Spec) ----------------------------------------------------------
\* C3: a push of content whose digest is indexed ends with the duplicate
\* error, whatever filename it is given, and that step sends nothing and
\* leaves the File rows, the Chunk rows and the chat as they were.
C3_DuplicateRejected ==
    [][(up.pc = "idle" /\ result'.op = "push"
            /\ \E f \in files : f.hash = result'.hash)
        => (/\ result'.outcome = "duplicate"
            /\ files' = files /\ chunks' = chunks /\ nextFileId' = nextFileId
            /\ transport' = transport
            /\ up' = up)]_vars

\* A push was rejected as a duplicate of a file indexed under another name.
C3_DuplicateUnderOtherName ==
    /\ result.op = "push" /\ result.outcome = "duplicate"
    /\ \E f \in files : f.hash = result.hash /\ f.filename # result.filename

\* ---- C4 (Spec) ----------------------------------------------------------
\* C4: whatever pushes, releases, promotions, renames and deletions ran, no
\* two File rows carry the same content hash.
C4_HashMapsToOneFile ==
    \A f \in files : \A g \in files : f.hash = g.hash => f = g

\* Resume tried to promote an upload whose hash had been indexed meanwhile.
C4_PromotionOfIndexedHash ==
    /\ result.op = "resume" /\ result.outcome = "failed"
    /\ \E u \in pendingUploads : \E f \in files : f.hash = u.hash

\* ---- C5 (Spec) ----------------------------------------------------------
\* C5: after processFile was terminated with k < n chunks sent and committed,
\* a Pending Upload for that file exists and reports k of n chunks uploaded.
\* processFile never writes the ledger, so none exists.
C5_InterruptedPushIsPending ==
    (result.op = "push" /\ result.outcome = "killed")
        => \E u \in pendingUploads :
               /\ u.hash = result.hash
               /\ u.total_chunks = result.total
               /\ u.uploaded_chunks = result.sent

\* A push was terminated after one of its two chunks was committed.
C5_KilledAfterFirstChunk ==
    /\ result.op = "push" /\ result.outcome = "killed"
    /\ result.sent = 1 /\ result.total = 2

\* ---- C6 (SpecResume) ----------------------------------------------------
\* C6: resume writes File and Chunk rows for a pending upload only when every
\* one of its Pending Chunks is marked uploaded, and that same step deletes the
\* ledger entry; a ledger entry goes away by exactly one of promotion and
\* clearing, its id never comes back, and an upload with a chunk that is not
\* uploaded stays pending unless it is cleared.
PendingIds(rows) == {u.id : u \in rows}
Promoted(u) ==
    /\ files' = files \cup {[id |-> nextFileId, filename |-> u.filename, hash |-> u.hash,
                              chunks |-> u.total_chunks]}
    /\ files' # files
    /\ {ch.chunk_index : ch \in chunks' \ chunks} = 0..(u.total_chunks - 1)
    /\ \A ch \in chunks' \ chunks : ch.file_id = nextFileId
Cleared == result'.op = "resume" /\ result'.outcome = "cleared" /\ rs.pc = "idle"

C6_PromotedOrCleared ==
    [][/\ (files' # files \/ chunks' # chunks) =>
            \E u \in pendingUploads :
                /\ rs.pc = "running" /\ u.id = Head(rs.queue)
                /\ \A ch \in getPendingChunks(pendingChunks, u.id) : ch.uploaded
                /\ Promoted(u)
                /\ u.id \notin PendingIds(pendingUploads')
                /\ getPendingChunks(pendingChunks', u.id) = {}
       /\ \A u \in pendingUploads :
             /\ u.id \notin PendingIds(pendingUploads') =>
                    (Promoted(u) /\ ~ Cleared) \/ (Cleared /\ files' = files /\ chunks' = chunks)
             /\ ((\E ch \in getPendingChunks(pendingChunks, u.id) : ~ ch.uploaded) /\ ~ Cleared)
                    => u.id \in PendingIds(pendingUploads')
       /\ \A id \in 1..(nextPendingId - 1) :
             id \notin PendingIds(pendingUploads) => id \notin PendingIds(pendingUploads')
      ]_vars

\* One upload has been promoted while another, with a chunk that could not be
\* sent, is still pending after the command went past it.
C6_PromotedAndStillPending ==
    /\ files # {}
    /\ result.op = "resume" /\ result.outcome = "resumed"
    /\ \E ch \in pendingChunks : ~ ch.uploaded

\* ---- C7 (SpecResume) ----------------------------------------------------
\* C7: resume sends no Pending Chunk twice and none that is marked uploaded: a
\* chunk is marked uploaded, with the ids its one send returned, exactly when
\* resume sent it from its spill file; and when the loop meets a chunk whose
\* spill file is missing it sends nothing and goes on with the next chunk of
\* the same run.
SentOnce ==
    \A ch \in pendingChunks :
        LET path == <<ch.upload_id, ch.chunk_index>>
        IN  /\ path \in DOMAIN resumeSends
            /\ resumeSends[path] <= 1
            /\ ch.uploaded <=> resumeSends[path] = 1
            /\ ch.uploaded =>
                   /\ ch.message_id = <<"pending", ch.upload_id, ch.chunk_index>>
                   /\ ch.file_telegram_id = ch.message_id
                   /\ ch.message_id \in DOMAIN transport
SendStep ==
    \A path \in DOMAIN resumeSends :
        (path \in DOMAIN resumeSends' /\ resumeSends'[path] # resumeSends[path]) =>
            /\ path \in DOMAIN spill
            /\ \E ch \in pendingChunks :
                   <<ch.upload_id, ch.chunk_index>> = path /\ ~ ch.uploaded
            /\ transport' = Stored(transport, <<"pending", path[1], path[2]>>, spill[path])
MissingStep ==
    (/\ rs.pc = "running" /\ rs.todo # <<>>
     /\ <<Head(rs.queue), Head(rs.todo)>> \notin DOMAIN spill
     /\ rs' # rs
     /\ result'.outcome # "killed")
        => (/\ rs' = [rs EXCEPT !.todo = Tail(rs.todo)]
            /\ transport' = transport
            /\ pendingChunks' = pendingChunks /\ pendingUploads' = pendingUploads)

C7_SentOnceMissingSkipped == []SentOnce /\ [][SendStep /\ MissingStep]_vars

\* The command skipped a chunk whose spill file was gone and then sent a later
\* chunk of the same upload.
C7_SkippedThenSent ==
    /\ rs.pc = "running"
    /\ \E p \in DOMAIN resumeSends : \E q \in DOMAIN resumeSends :
          /\ p[1] = Head(rs.queue) /\ q[1] = Head(rs.queue) /\ p[2] < q[2]
          /\ resumeSends[p] = 0 /\ p \notin DOMAIN spill
          /\ resumeSends[q] = 1

\* ---- C8 (SpecPipeline) --------------------------------------------------
\* C8: retrieveFile writes outputPath only in the step that has fetched the
\* last chunk of the file and decrypted and decompressed the reassembled
\* bytes, and what it writes is that content; a download that fails, by a
\* fetch or by decryption, leaves outputPath as it was.
C8_WrittenOnlyWhenComplete ==
    [][/\ output' # output =>
            /\ dl.pc = "fetching" /\ dl'.pc = "idle"
            /\ Len(dl.downloadedChunks) + 1 = Len(dl.rows)
            /\ result'.outcome = "downloaded"
            /\ output'.written
            /\ hashData(output'.data) = result.hash
       /\ (result'.op = "pull" /\ result'.outcome = "failed") => output' = output
      ]_vars

\* A download failed after it had fetched a chunk, and nothing was written.
C8_FailedAfterFirstFetch ==
    /\ result.op = "pull" /\ result.outcome = "failed" /\ result.sent >= 1
    /\ ~ output.written

\* ---- C9 (SpecPipeline) --------------------------------------------------
\* C9: a download that has fetched a blob whose header's chunk index differs
\* from the index of the Chunk row it was fetched for does not end well: it
\* fails and writes nothing.  retrieveFile compares no header index with a
\* position; it sorts by the header indices, and a stable sort of <<1, 1>>
\* keeps the fetch order, so the download succeeds.
C9_MismatchFailsDownload ==
    [][(/\ dl.pc = "fetching" /\ dl'.pc = "idle"
        /\ \E k \in 1..Len(dl.downloadedChunks) :
               dl.downloadedChunks[k].index # dl.rows[k].chunk_index)
        => (result'.outcome = "failed" /\ output' = output)]_vars

\* A download is under way that has fetched a blob with a header index other
\* than its position.
C9_MismatchFetched ==
    /\ dl.pc = "fetching"
    /\ \E k \in 1..Len(dl.downloadedChunks) :
           dl.downloadedChunks[k].index # dl.rows[k].chunk_index

\* ---- C10 (SpecChunker) --------------------------------------------------
\* C10: for every payload and every ceiling, the segments of chunk(payload),
\* arrived in any order, reassemble to the payload.
C10_RoundTrip ==
    rt.pc = "done" => (rt.out.ok /\ rt.out.data = rt.data)

\* A payload of three segments was reassembled after they arrived last first.
C10_ArrivedInReverse ==
    /\ rt.pc = "done" /\ Len(rt.arrived) = 3
    /\ rt.arrived[1].index = 2 /\ rt.arrived[2].index = 1 /\ rt.arrived[3].index = 0

\* ---- C11 (SpecCrypto) ---------------------------------------------------
\* C11: for every payload, the empty one included, and every password,
\* decrypting what encrypt returned, with the same password, returns the
\* payload.
C11_DecryptInvertsEncrypt ==
    (rt.pc = "decrypted" /\ ~ rt.altered /\ rt.used = rt.password)
        => (rt.out.ok /\ rt.out.data = rt.data)

\* A payload with a set byte came back from decrypt.
C11_PayloadCameBack ==
    /\ rt.pc = "decrypted" /\ ~ rt.altered /\ rt.used = rt.password
    /\ Len(rt.data) >= 2 /\ rt.data[1] # rt.data[2]
    /\ rt.out.data = rt.data

\* ---- C12 (SpecCrypto) ---------------------------------------------------
\* C12: decrypting with another password than the one used to encrypt, or a
\* blob of which a byte was changed or cut off, fails and returns no plaintext.
C12_WrongKeyOrAlteredFails ==
    (rt.pc = "decrypted" /\ (rt.altered \/ rt.used # rt.password))
        => (~ rt.out.ok /\ rt.out.data = <<>>)

\* The right password was used on a blob of full length with one byte changed.
C12_AlteredCiphertextRejected ==
    /\ rt.pc = "decrypted" /\ rt.altered /\ rt.used = rt.password
    /\ Len(rt.blob) = Len(rt.data) + SALT_LENGTH + IV_LENGTH + TAG_LENGTH
    /\ Len(rt.data) >= 1
    /\ rt.blob[Len(rt.blob)] >= 2
    /\ ~ rt.out.ok

\* ---- C13 (SpecHeader) ---------------------------------------------------
\* C13, as the code has it: parseHeader(createHeader(...)) returns the flags,
\* size, index and total it was given, version 1, compressed equal to bit 0 of
\* flags, and as name the decoding of the first NAME_MAX bytes of the name's
\* encoding: the name itself when it is no longer than that.
C13_HeaderRoundTrip ==
    (rt.pc = "parsed" /\ ~ rt.damaged) =>
        /\ rt.out.ok
        /\ rt.out.version = 1
        /\ rt.out.flags = rt.flags
        /\ rt.out.compressed = (rt.flags \in {1, 3})
        /\ rt.out.originalSize = rt.originalSize
        /\ rt.out.chunkIndex = rt.chunkIndex
        /\ rt.out.totalChunks = rt.totalChunks
        /\ rt.out.filename = toString(SubSeq(utf8(rt.filename), 1,
                                              Min(NAME_MAX, Len(utf8(rt.filename)))))
        /\ Len(utf8(rt.filename)) <= NAME_MAX => rt.out.filename = rt.filename

\* C13 as stated: a longer name comes back as its first NAME_MAX bytes.  A
\* name whose NAME_MAX-th byte is the first byte of a two-byte character comes
\* back with U+FFFD in that character's place.
C13_NameIsFirstBytes ==
    (rt.pc = "parsed" /\ ~ rt.damaged) =>
        utf8(rt.out.filename) = SubSeq(utf8(rt.filename), 1,
                                       Min(NAME_MAX, Len(utf8(rt.filename))))

\* A header with every field set and a name cut inside a character was parsed.
C13_ParsedCutName ==
    /\ rt.pc = "parsed" /\ ~ rt.damaged
    /\ rt.flags = 3 /\ rt.originalSize = 6 /\ rt.chunkIndex = 1 /\ rt.totalChunks = 2
    /\ rt.filename = <<"a", "u">>
    /\ rt.out.filename = <<"a", "?">>

\* ---- C14 (SpecHeader) ---------------------------------------------------
\* C14: parseHeader returns no header for a buffer that does not start with
\* the magic token, nor for one shorter than HEADER_SIZE.  It checks no
\* length: a buffer that holds the fixed fields parses, its name cut short.
C14_ShortOrForeignBufferFails ==
    (rt.pc = "parsed" /\ (Len(rt.buffer) < HEADER_SIZE \/ Slice(rt.buffer, 0, 4) # MAGIC))
        => ~ rt.out.ok

\* A buffer one byte short of a header was parsed.
C14_ParsedShortBuffer ==
    rt.pc = "parsed" /\ Len(rt.buffer) = HEADER_SIZE - 1

\* ---- C15 (SpecCompressor) -----------------------------------------------
\* C15: decompress(c.data, c.compressed) with c = compress(P, name) is P for
\* every payload and name; c.compressed holds only when the name's extension
\* is not in the skip set and c.data, the gzip form, is strictly shorter than
\* P; otherwise c.data is P; and decompress with the flag off returns its
\* input.
C15_CompressRoundTrip ==
    /\ rt.pc \in {"compressed", "decompressed"} =>
          /\ rt.c.compressed =>
                /\ toLowerCase(extname(rt.filename)) \notin SKIP_COMPRESSION
                /\ Len(rt.c.data) < Len(rt.data)
                /\ rt.c.data = gzip(rt.data)
          /\ ~ rt.c.compressed => rt.c.data = rt.data
    /\ rt.pc = "decompressed" =>
          /\ rt.out.ok /\ rt.out.data = rt.data
          /\ ~ rt.c.compressed => rt.out.data = rt.c.data

\* A payload of set bytes was stored compressed, shorter, and came back.
C15_CompressedCameBack ==
    /\ rt.pc = "decompressed" /\ rt.c.compressed
    /\ rt.data[1] = 1 /\ Len(rt.c.data) < Len(rt.data)
    /\ rt.out.data = rt.data

\* C16: after a write, a successful unlink or a successful rename of a name
\* returns, the read cache holds no entry under that name.
C16_InvalidatedByWriteUnlinkRename ==
    [][\A n \in Names :
          (\/ \E c \in Contents : write(n, c)
           \/ \E failing \in {{}, DOMAIN transport} :
                  unlink(n, failing) /\ result'.outcome = "ok"
           \/ \E m \in Names \ {n} : rename(n, m) /\ result'.outcome = "ok")
          => n \notin DOMAIN fileCache']_vars

\* C17: when a modified write buffer is released for a name that is indexed and
\* the bytes are uploaded, the index afterwards holds a File under that name
\* with the digest of the buffered bytes, and no File that was under that name
\* before is left.
C17_ReleaseReplacesOldVersion ==
    [][\A n \in Names :
          (/\ n \in DOMAIN writeBuffers
           /\ writeBuffers[n].modified
           /\ \E f \in files : f.filename = n
           /\ \E failing \in {{}, DOMAIN transport} : release(n, failing)
           /\ result'.outcome = "ok")
          => /\ \E f \in files' : /\ f.filename = n
                                   /\ f.hash = hashData(writeBuffers[n].data)
             /\ \A f \in files : f.filename = n => f.id \notin {g.id : g \in files'}]_vars

\* C18: when a modified write buffer is released and the digest of its bytes is
\* stored under a different name, release reports success, no message is added
\* to the chat and no row to files or chunks.
C18_SameContentOtherNameSkipped ==
    [][\A n \in Names :
          (/\ n \in DOMAIN writeBuffers
           /\ writeBuffers[n].modified
           /\ \E f \in files : /\ f.hash = hashData(writeBuffers[n].data)
                                /\ f.filename # n
           /\ \E failing \in {{}, DOMAIN transport} : release(n, failing))
          => /\ result'.outcome \in {"ok", "skipped"}
             /\ DOMAIN transport' \subseteq DOMAIN transport
             /\ files' \subseteq files
             /\ chunks' \subseteq chunks]_vars

\* C19 as stated: whenever a message of the file unlink removes from the index
\* could not be deleted, unlink reports the I/O error code.
C19_EveryTransportFailureIsEIO ==
    [][\A n \in Names :
          (/\ \E failing \in {{}, DOMAIN transport} : unlink(n, failing)
           /\ \E f \in files \ files' : messagesOf(f.id) \cap DOMAIN transport' # {})
          => result'.outcome = "EIO"]_vars

\* C19: a read whose download fails and a release whose bytes do not reach the
\* store report the I/O error code; an unlink that leaves a message
\* undeleted reports success; nothing thrown escapes an operation.
C19_FailuresReportedDeletesTolerated ==
    [][\A n \in Names :
          /\ (read(n, FALSE) /\ ~Fresh(n)) => result'.outcome = "EIO"
          /\ (/\ n \in DOMAIN writeBuffers
              /\ writeBuffers[n].modified
              /\ \E failing \in {{}, DOMAIN transport} : release(n, failing)
              /\ ~ \E f \in files' : f.hash = hashData(writeBuffers[n].data))
             => result'.outcome = "EIO"
          /\ (/\ \E failing \in {{}, DOMAIN transport} : unlink(n, failing)
              /\ \E f \in files \ files' : messagesOf(f.id) \cap DOMAIN transport' # {})
             => result'.outcome = "ok"
          /\ result'.outcome # "uncaught"]_vars

\* A read of an indexed file has failed to fetch and reported the error.
C19_FetchOfIndexedFileFailed ==
    /\ result.op = "read"
    /\ result.outcome = "EIO"
    /\ \E f \in files : f.filename = <<"a">>
    /\ <<"a">> \notin DOMAIN fileCache
    /\ writeBuffers = <<>>

Turn == Head(rt.queue).relativePath
Persisted == rt.syncState[Turn]
Current == rt.folder[Turn]

\* C21: a turn of the scan loop skips a file whose persisted mtime is at least
\* its current mtime and changes nothing; else, when the digest equals the
\* persisted one, it stores the current mtime only and calls no upload; else
\* it calls processFile under the relative path and, when that succeeds,
\* persists the digest and the mtime.
C21_DecisionOrder ==
    [][(rt.pc = "looping" /\ syncFolderFile) =>
          IF Turn \in DOMAIN rt.syncState /\ Persisted.mtime >= Current.mtime
          THEN /\ rt'.syncState = rt.syncState
               /\ rt'.invoked = rt.invoked
               /\ rt'.skipped = rt.skipped + 1
               /\ UNCHANGED <<index, chat>>
          ELSE IF Turn \in DOMAIN rt.syncState
                  /\ Persisted.file_hash = hashData(Current.content)
          THEN /\ rt'.syncState = [rt.syncState EXCEPT ![Turn].mtime = Current.mtime]
               /\ rt'.invoked = rt.invoked
               /\ rt'.skipped = rt.skipped + 1
               /\ UNCHANGED <<index, chat>>
          ELSE /\ rt'.invoked = rt.invoked + 1
               /\ rt'.uploaded = rt.uploaded + 1 =>
                      /\ \E f \in files' \ files :
                             /\ f.filename = Turn
                             /\ f.hash = hashData(Current.content)
                      /\ rt'.syncState[Turn] = [file_hash |-> hashData(Current.content),
                                                mtime |-> Current.mtime]
                      /\ \A q \in DOMAIN rt.syncState \ {Turn} :
                             rt'.syncState[q] = rt.syncState[q]]_vars

\* The second pass has skipped one file and uploaded the other, and Sync State
\* holds both.
C21_SkippedAndUploaded ==
    /\ rt.pc = "idle"
    /\ rt.pass = 2
    /\ rt.skipped = 1
    /\ rt.uploaded = 1
    /\ DOMAIN rt.syncState = Names

\* A turn of the scan loop, or a re-evaluation by the watch, of a file whose
\* digest the index holds.
RejectedAsDuplicate(path) ==
    /\ path \in DOMAIN rt.folder
    /\ \E f \in files : f.hash = hashData(rt.folder[path].content)
    /\ \/ rt.pc = "looping" /\ Turn = path /\ syncFolderFile
       \/ processFileChange(path)

\* C22: when the digest of a scanned or re-evaluated file is already indexed,
\* no upload-error event is emitted for it, nothing is sent and no row is
\* added, and a turn of the scan counts the file as skipped.
C22_DuplicateIsSkip ==
    [][\A path \in Names :
          RejectedAsDuplicate(path) =>
              /\ rt'.errors = rt.errors
              /\ UNCHANGED <<index, chat>>
              /\ rt.pc = "looping" => /\ rt'.skipped = rt.skipped + 1
                                      /\ rt'.uploaded = rt.uploaded]_vars

\* A first scan has counted the second of two files of equal content as
\* skipped, after uploading the first, without an error event.
C22_TwinSkippedInFirstPass ==
    /\ rt.pc = "idle"
    /\ rt.pass = 1
    /\ DOMAIN rt.folder = Names
    /\ rt.uploaded = 1
    /\ rt.skipped = 1
    /\ rt.invoked = 2
    /\ rt.errors = {}

\* C24: the scan lists a file exactly when a change notification for its
\* relative path is handled.
C24_ScanAndWatchExcludeTheSame ==
    (rt.scan # "not run" /\ rt.watch # "not run") =>
        (rt.scan = "ignored" <=> rt.watch = "ignored")

\* Every path with a pending change has one timer, due one window after its
\* last notification, and every run of notifications of a path has had its
\* one re-evaluation or has its timer pending.
OneTimerPerPath ==
    /\ rt.timers = {[key |-> k, due |-> rt.pendingChanges[k]] : k \in DOMAIN rt.pendingChanges}
    /\ \A k \in DOMAIN rt.pendingChanges :
           rt.pendingChanges[k] = rt.lastEvent[k] + DEBOUNCE_MS
    /\ \A k \in WatchNames :
           rt.bursts[k] = rt.evaluations[k] + (IF k \in DOMAIN rt.pendingChanges THEN 1 ELSE 0)

\* A re-evaluation of a path runs one window after its last notification.
FiresAfterWindow ==
    \A k \in WatchNames :
        rt'.evaluations[k] # rt.evaluations[k] => rt.clock = rt.lastEvent[k] + DEBOUNCE_MS

\* A notification of one path leaves the timers of the others alone.
TimersIndependent ==
    \A k \in WatchNames :
        handleFileChange(k) =>
            /\ {t \in rt'.timers : t.key # k} = {t \in rt.timers : t.key # k}
            /\ \A q \in DOMAIN rt.pendingChanges \ {k} :
                   /\ q \in DOMAIN rt'.pendingChanges
                   /\ rt'.pendingChanges[q] = rt.pendingChanges[q]

\* C23: notifications of a path less than a window apart lead to exactly one
\* re-evaluation, one window after the last of them, and a notification of one
\* path neither delays nor cancels the re-evaluation of another.
C23_DebounceCoalesces == []OneTimerPerPath /\ [][FiresAfterWindow /\ TimersIndependent]_vars

\* Path a was notified at 0 and at 1 and re-evaluated once, at 3, while the
\* timer of path ab, notified at 2, is still pending.
C23_TwoNotificationsOneRun ==
    /\ rt.clock = 3
    /\ rt.lastEvent[<<"a">>] = 1
    /\ rt.bursts[<<"a">>] = 1
    /\ rt.evaluations[<<"a">>] = 1
    /\ <<"a">> \notin DOMAIN rt.pendingChanges
    /\ <<"a", "b">> \in DOMAIN rt.pendingChanges
    /\ rt.pendingChanges[<<"a", "b">>] = 4

\* The tag as the index keeps it: lowercased, without surrounding whitespace.
Canon(tag) ==
    LET low == [i \in 1..Len(tag) |->
                  IF tag[i] = "A" THEN "a" ELSE IF tag[i] = "B" THEN "b" ELSE tag[i]]
        inner == {i \in 1..Len(low) : low[i] # " "}
    IN  IF inner = {} THEN <<>>
        ELSE SubSeq(low, CHOOSE i \in inner : \A j \in inner : i <= j,
                         CHOOSE i \in inner : \A j \in inner : i >= j)

TagsOf(listing) == {listing[i] : i \in 1..Len(listing)}

InTagOrder(listing) ==
    \A i \in 1..Len(listing), j \in 1..Len(listing) : i < j => before(listing[i], listing[j])

\* C25: getFileTags is always an ascending list without repetition; addTag
\* adds the normalized tag to the file's set and removeTag takes it out, each
\* leaving the other file's tags alone, so a tag that differs from a present
\* one by case or surrounding whitespace adds nothing.
C25_TagSetNormalized ==
    /\ [](\A f \in {1, 2} : InTagOrder(getFileTags(f)))
    /\ [][\A f \in {1, 2}, tag \in TagInputs :
            /\ (addTag(f, tag) /\ rt' # rt) =>
                  /\ TagsOf(getFileTags(f))' = TagsOf(getFileTags(f)) \cup {Canon(tag)}
                  /\ getFileTags(3 - f)' = getFileTags(3 - f)
            /\ (addTag(f, tag) /\ rt' = rt) => Canon(tag) \in TagsOf(getFileTags(f))
            /\ removeTag(f, tag) =>
                  /\ TagsOf(getFileTags(f))' = TagsOf(getFileTags(f)) \ {Canon(tag)}
                  /\ getFileTags(3 - f)' = getFileTags(3 - f)]_vars

\* File 1 was tagged "a B", "B" and "a", in that order, and lists them sorted.
C25_ThreeTagsSorted ==
    /\ Len(rt.tags) = 3
    /\ rt.tags[1].tag = <<"a", " ", "b">>
    /\ rt.tags[2].tag = <<"b">>
    /\ getFileTags(1) = << <<"a">>, <<"a", " ", "b">>, <<"b">> >>

\* No row refers to a File or a Sync Folder that is gone.
NoOrphans ==
    /\ \A i \in 1..Len(rt.tags) : rt.tags[i].file_id \in rt.files
    /\ \A ch \in rt.chunks : ch.file_id \in rt.files
    /\ \A s \in rt.sync_state : s.folder_id \in {f.id : f \in rt.sync_folders}

\* C26: deleting a File removes its Tag and Chunk rows, removing a Sync Folder
\* removes its Sync State rows, and a folder that is added starts without any
\* Sync State.
C26_NoOrphanRows ==
    /\ []NoOrphans
    /\ [][\A localPath \in FolderPaths :
            (addSyncFolder(localPath) /\ rt' # rt) =>
                \A f \in rt'.sync_folders :
                    f.local_path = localPath => getFolderSyncStates(f.id)' = {}]_vars

\* File 1 is gone with its tags and chunks while file 2 keeps a tag, and the
\* folder was removed with its state and added again.
C26_DeletedAndReAdded ==
    /\ rt.files = {2}
    /\ rt.swept = {"tags", "chunks", "sync_state"}
    /\ Len(rt.tags) = 1
    /\ \E f \in rt.sync_folders : f.id = 2
    /\ rt.sync_state = {}

\* C27: unlink of a name removes only Files whose filename equals the name, and
\* changes nothing when no File has exactly that name.
C27_UnlinkActsOnExactName ==
    [][\A n \in Names :
          (\E failing \in {{}, DOMAIN transport} : unlink(n, failing))
          => \A f \in files : f.id \notin {g.id : g \in files'} => f.filename = n]_vars

\* The least number of segments of at most `ceiling` bytes that hold `length`
\* bytes.
SegmentsFor(length, ceiling) ==
    CHOOSE n \in 0..length : n * ceiling >= length /\ (n - 1) * ceiling < length

\* The upload in flight has n = ceil(L / C) >= 1 segments, its File row says
\* so, and the Chunk rows written so far are those of the segments before the
\* current one.
SegmentsInOrder ==
    up.pc = "sending" =>
        /\ up.total = SegmentsFor(Len(encryptedData(up.content)), TELEGRAM_CHUNK_SIZE)
        /\ up.total >= 1
        /\ up.index < up.total
        /\ {ch.chunk_index : ch \in getChunks(up.fileId)} = 0..(up.index - 1)
        /\ Cardinality(getChunks(up.fileId)) = up.index
        /\ \E f \in files : f.id = up.fileId /\ f.chunks = up.total

\* One send adds one message, the frame of the current segment, and the last
\* send leaves the n Chunk rows 0..n-1.
OneSegmentSent ==
    processFileSend =>
        /\ \E m \in DOMAIN transport' \ DOMAIN transport :
               /\ DOMAIN transport' = DOMAIN transport \cup {m}
               /\ transport'[m].chunkIndex = up.index
               /\ transport'[m].totalChunks = up.total
               /\ Len(transport'[m].payload) <= TELEGRAM_CHUNK_SIZE
        /\ result'.outcome = "uploaded" =>
               /\ {ch.chunk_index : ch \in {r \in chunks' : r.file_id = up.fileId}} = 0..(up.total - 1)
               /\ Cardinality({r \in chunks' : r.file_id = up.fileId}) = up.total
               /\ \E f \in files' : f.id = up.fileId /\ f.chunks = up.total

\* C28: processFile cuts the encrypted bytes into n = ceil(L / C) >= 1 segments
\* of at most C bytes, frames segment i with index i and total n, sends them
\* one at a time in increasing order, and on success leaves n Chunk rows
\* 0..n-1 and a File row with chunks = n.
C28_SegmentCount == []SegmentsInOrder /\ [][OneSegmentSent]_vars

\* An upload of two segments and one of a single segment have both succeeded.
C28_OneAndTwoSegments ==
    /\ result.op = "push" /\ result.outcome = "uploaded"
    /\ \E f \in files : f.chunks = 2 /\ Cardinality(getChunks(f.id)) = 2
    /\ \E f \in files : f.chunks = 1 /\ Cardinality(getChunks(f.id)) = 1

\* The bytes of the write buffer of a name, none when it has no buffer.
Buffered(state, n) ==
    IF n \in DOMAIN state.writeBuffers
    THEN bytesOf(state.heap, state.writeBuffers[n].data)
    ELSE <<>>

\* C29: after write(name, data, length, position) the write buffer is
\* max(old length, position + length) long, has the written bytes at
\* [position, position + length), the bytes it had elsewhere, and zero between
\* its old end and position; without a buffer the write starts from empty.
C29_WriteAtPosition ==
    [][\A n \in BufferNames, data \in WriteData, length \in 0..2, position \in 0..MaxBytes :
          (length <= Len(data) /\ writeAt(n, data, length, position)) =>
              LET old == Buffered(rt, n)
                  new == Buffered(rt', n)
              IN  /\ Len(new) = IF Len(old) >= position + length
                                THEN Len(old) ELSE position + length
                  /\ \A i \in 1..Len(new) :
                        new[i] = IF position < i /\ i <= position + length
                                 THEN data[i - position]
                                 ELSE IF i <= Len(old) THEN old[i] ELSE 0]_vars

\* Name a holds 1, a zero gap, then 2: a write at 0 and one past the end.
C29_WrittenPastTheEnd ==
    /\ <<"a">> \in DOMAIN rt.writeBuffers
    /\ Buffered(rt, <<"a">>) = <<1, 0, 2>>

\* The cache entry of a name truncate may load from.
InReadCache(n) ==
    /\ n \in DOMAIN rt.fileCache
    /\ rt.now - rt.fileCache[n].timestamp <= CACHE_TTL

\* C30: after truncate(name, size) the write buffer is size long, begins with
\* the bytes it had (those of the read cache when there was no buffer and the
\* name is cached, none when it is not) and is zero beyond them; the buffer
\* made from the cache is a copy, and the cached bytes stay as they were.
C30_TruncateToSize ==
    /\ [](\A n \in DOMAIN rt.fileCache :
            /\ bytesOf(rt.heap, rt.fileCache[n].data) = CachedBytes
            /\ \A k \in DOMAIN rt.writeBuffers :
                   rt.writeBuffers[k].data.mem # rt.fileCache[n].data.mem)
    /\ [][\A n \in BufferNames, size \in 0..MaxBytes :
            truncate(n, size) =>
                LET old == IF n \in DOMAIN rt.writeBuffers THEN Buffered(rt, n)
                           ELSE IF InReadCache(n)
                           THEN bytesOf(rt.heap, rt.fileCache[n].data)
                           ELSE <<>>
                    new == Buffered(rt', n)
                IN  /\ Len(new) = size
                    /\ \A i \in 1..size : new[i] = IF i <= Len(old) THEN old[i] ELSE 0
                    /\ InReadCache(n) =>
                          /\ n \in DOMAIN rt'.fileCache
                          /\ bytesOf(rt'.heap, rt'.fileCache[n].data)
                                = bytesOf(rt.heap, rt.fileCache[n].data)]_vars

\* Name a was truncated to three bytes from its two cached bytes and then
\* written at 0, and the cache still has the bytes it had.
C30_LoadedFromCacheAndExtended ==
    /\ InReadCache(<<"a">>)
    /\ <<"a">> \in DOMAIN rt.writeBuffers
    /\ Buffered(rt, <<"a">>) = <<2, 2, 0>>
    /\ bytesOf(rt.heap, rt.fileCache[<<"a">>].data) = CachedBytes

\* C31: unlink of a name that a File has removes that File's row, its Chunk
\* rows, each of its messages whose deletion did not fail and the cache entry,
\* and reports success; unlink of a name no File has reports not-found and
\* changes neither the index nor the chat nor the cache.
C31_UnlinkRemovesOrReportsNotFound ==
    [][\A n \in Names, failing \in {{}, DOMAIN transport} :
          unlink(n, failing) =>
              IF \E f \in files : f.filename = n
              THEN /\ result'.outcome = "ok"
                   /\ \E f \in files :
                          /\ f.filename = n
                          /\ files' = files \ {f}
                          /\ chunks' = {ch \in chunks : ch.file_id # f.id}
                          /\ DOMAIN transport' =
                                DOMAIN transport \ ({ch.message_id : ch \in {r \in chunks : r.file_id = f.id}} \ failing)
                   /\ n \notin DOMAIN fileCache'
              ELSE /\ result'.outcome = "ENOENT"
                   /\ UNCHANGED <<files, chunks, transport, fileCache>>]_vars

\* C32: every turn of the scan loop takes the first file off the list and
\* leaves the others to be scanned, counting the file as uploaded or skipped or
\* emitting an error event for it, so that a failure on one file never ends
\* the pass.
C32_PassContinuesAfterFailure ==
    [][(rt.pc = "looping" /\ rt'.queue # rt.queue) =>
          /\ rt'.queue = Tail(rt.queue)
          /\ \/ rt'.uploaded = rt.uploaded + 1 /\ rt'.skipped = rt.skipped /\ rt'.errors = rt.errors
             \/ rt'.uploaded = rt.uploaded /\ rt'.skipped = rt.skipped + 1 /\ rt'.errors = rt.errors
             \/ /\ rt'.uploaded = rt.uploaded /\ rt'.skipped = rt.skipped
                /\ rt'.errors = rt.errors \cup {Turn}
                /\ Turn \notin rt.errors]_vars

\* C33: whenever the watch may re-evaluate a file, its re-evaluation leaves the
\* index, the chat and Sync State as a turn of the scan for that file would,
\* from the same Sync State and the same mtime and digest of the file.
C33_WatchDecidesAsScan ==
    rt.pc = "idle" =>
        \A path \in DOMAIN rt.folder, sends \in 0..TELEGRAM_CHUNK_SIZE :
            LET watch == reevaluated(path, sends)
                turn == scanned(path, rt.folder[path].mtime, sends)
            IN  /\ watch.files = turn.files
                /\ watch.chunks = turn.chunks
                /\ watch.transport = turn.transport
                /\ watch.syncState = turn.syncState

\* C34: for every Sync State row the index holds a File with the row's digest
\* and a Chunk row for each of the File's chunks.
C34_SyncStateOnlyForStoredFiles ==
    \A path \in DOMAIN rt.syncState :
        \E f \in files :
            /\ f.hash = rt.syncState[path].file_hash
            /\ {ch.chunk_index : ch \in getChunks(f.id)} = 0..(f.chunks - 1)

\* C35: when the release of a modified write buffer reports the I/O error, the
\* File and Chunk rows and the messages of the chat are those of before, and
\* the write buffer is still there.
C35_FailedReleaseChangesNothing ==
    [][\A n \in Names :
          (/\ n \in DOMAIN writeBuffers
           /\ writeBuffers[n].modified
           /\ \E failing \in {{}, DOMAIN transport} : release(n, failing)
           /\ result'.outcome = "EIO")
          => /\ UNCHANGED <<files, chunks, transport>>
             /\ n \in DOMAIN writeBuffers'
             /\ writeBuffers'[n] = writeBuffers[n]]_vars

\* C36: truncate(name, size) of an indexed file without a write buffer makes a
\* buffer that begins with the first min(size, stored size) bytes of the stored
\* content, whether the file is in the read cache or not.
C36_TruncateKeepsStoredContent ==
    [][\A n \in BufferNames, size \in 0..MaxBytes :
          (n \notin DOMAIN rt.writeBuffers /\ n \in DOMAIN rt.stored /\ truncate(n, size)) =>
              \A i \in 1..Min(size, Len(rt.stored[n])) :
                  Buffered(rt', n)[i] = rt.stored[n][i]]_vars

\* C37: when read serves bytes for a name, their number is the size getattr
\* reports for the name.
C37_GetattrSizeIsReadSize ==
    [][\A n \in Names :
          ((\E fetchOk \in BOOLEAN : read(n, fetchOk)) /\ result'.outcome = "ok") =>
              \A size \in getattr(n) :
                  \E c \in Contents : hashData(c) = result'.hash /\ sizeOfContent(c) = size]_vars

\* C38: no two File rows of the index have the same filename.
C38_FilenamesDistinct ==
    \A f \in files, g \in files : f.filename = g.filename => f.id = g.id

\* The messages a call of processFile has sent.
SentBy(p) == {m \in DOMAIN transport : m[2] = rt.call[p].fileId}

\* C39: no two File rows have one hash; of two calls of processFile for the same
\* content that are under way or have ended, at most one has added a File row
\* and entered the send loop, and a call that ended as a duplicate or at addFile
\* has sent nothing.
C39_OneOfTwoUploadsSends ==
    /\ \A f \in files, g \in files : f.hash = g.hash => f.id = g.id
    /\ \A p \in Callers : \A q \in Callers \ {p} :
           (rt.call[p].pc # "idle" /\ rt.call[q].pc # "idle"
            /\ rt.call[p].content = rt.call[q].content)
           => ~ (/\ rt.call[p].pc \in {"sending", "uploaded", "send_failed"}
                 /\ rt.call[q].pc \in {"sending", "uploaded", "send_failed"})
    /\ \A p \in Callers :
           rt.call[p].pc \in {"prepared", "duplicate", "failed"} =>
               rt.call[p].index = 0 /\ rt.call[p].fileId = 0
    /\ \A m \in DOMAIN transport : \E f \in files : f.id = m[2]

\* Both calls passed the duplicate check for the same content before either
\* added the File row: the first uploaded its two chunks, the second was
\* stopped by the UNIQUE constraint.
C39_SecondStoppedAtAddFile ==
    /\ rt.call[1].pc = "uploaded"
    /\ rt.call[2].pc = "failed"
    /\ rt.call[1].content = rt.call[2].content
    /\ Cardinality(SentBy(1)) = 2
    /\ Cardinality(files) = 1

\* C40: no path ever has two timers; once the engine is stopped there is no
\* timer and no pending change, and no re-evaluation runs any more.
C40_StopCancelsTimers ==
    /\ [](\A k \in WatchNames : Cardinality({t \in rt.timers : t.key = k}) <= 1)
    /\ [](~ rt.watching => rt.timers = {} /\ rt.pendingChanges = <<>>)
    /\ [][~ rt.watching => rt'.evaluations = rt.evaluations]_vars
    /\ [][stop => ~ rt'.watching /\ rt'.timers = {} /\ rt'.pendingChanges = <<>>]_vars

\* The engine was stopped while the timers of both paths were pending, path a
\* notified twice: neither path was re-evaluated, and time has passed since.
C40_StoppedWithTimersPending ==
    /\ ~ rt.watching
    /\ rt.clock = MaxTime
    /\ rt.lastEvent[<<"a">>] = 1
    /\ \A k \in Names : rt.bursts[k] = 1 /\ rt.evaluations[k] = 0
====
